---- MODULE Spec2Model ----
(***************************************************************************)
(* Model of the conversion pipeline of .github/scripts:                    *)
(*   scan_repo.py      scan the tree, upsert rows of files_manifest        *)
(*   create_jobs.py    fetch pending rows, batch them, create jobs,        *)
(*                     mark the rows in_job                                *)
(*   validate_jobs.py  fetch jobs awaiting validation, mark each           *)
(*                     converted_ok / failed_validation                    *)
(* The row store (two tables behind a REST interface) is the shared state. *)
(* A string is a sequence of one-character strings.                        *)
(***************************************************************************)
EXTENDS Integers, Sequences, FiniteSets, TLC

\* ------------------------------------------------------------------ bounds

\* Number of paths of AllPaths a scanned tree may hold.
MaxPaths == 4
\* Number of rows the jobs table may hold.
MaxJobs == 2
\* create_jobs.py:22 sets BATCH_SIZE = 20; the model scales it down with
\* MaxPaths so that one run has a full batch and a remainder batch.
BATCH_SIZE == 2

\* fetch_pending_files(limit=500), create_jobs.py:152
PENDING_LIMIT == 500
\* "limit": "100", validate_jobs.py:28
VALIDATE_LIMIT == 100

NULL == "None"

\* None where a string is expected: a sequence apart from every string, its
\* one element being no character.
NO_STRING == <<"None">>

\* ----------------------------------------------------------- string helpers

ASCII_UPPER ==
  [A |-> "a", B |-> "b", C |-> "c", D |-> "d", E |-> "e", F |-> "f", G |-> "g",
   H |-> "h", I |-> "i", J |-> "j", K |-> "k", L |-> "l", M |-> "m", N |-> "n",
   O |-> "o", P |-> "p", Q |-> "q", R |-> "r", S |-> "s", T |-> "t", U |-> "u",
   V |-> "v", W |-> "w", X |-> "x", Y |-> "y", Z |-> "z"]

\* str.lower()
lower(s) ==
  [i \in 1..Len(s) |-> IF s[i] \in DOMAIN ASCII_UPPER THEN ASCII_UPPER[s[i]] ELSE s[i]]

\* str.startswith / str.endswith / the `in` operator on strings
startswith(s, pre) ==
  Len(pre) <= Len(s) /\ SubSeq(s, 1, Len(pre)) = pre

endswith(s, suf) ==
  Len(suf) <= Len(s) /\ SubSeq(s, Len(s) - Len(suf) + 1, Len(s)) = suf

contains(s, sub) ==
  \E i \in 1..(Len(s) - Len(sub) + 1) : SubSeq(s, i, i + Len(sub) - 1) = sub

WHITESPACE == {" ", "\t", "\n", "\r"}

\* str.strip(): drop leading and trailing whitespace
strip(s) ==
  LET keep == {i \in 1..Len(s) : s[i] \notin WHITESPACE}
  IN  IF keep = {} THEN <<>>
      ELSE LET lo == CHOOSE i \in keep : \A j \in keep : i <= j
               hi == CHOOSE i \in keep : \A j \in keep : j <= i
           IN  SubSeq(s, lo, hi)

\* Position of the last occurrence of character c in s, 0 when absent.
LastIndex(s, c) ==
  LET at == {i \in 1..Len(s) : s[i] = c}
  IN  IF at = {} THEN 0 ELSE CHOOSE i \in at : \A j \in at : j <= i

\* The components of a "/"-separated path: directories, then the file name.
RECURSIVE Segments(_)
Segments(p) ==
  LET at == {i \in 1..Len(p) : p[i] = "/"}
  IN  IF at = {} THEN <<p>>
      ELSE LET k == CHOOSE i \in at : \A j \in at : i <= j
           IN  <<SubSeq(p, 1, k - 1)>> \o Segments(SubSeq(p, k + 1, Len(p)))

\* os.path.splitext(filename)[1]: from the last dot on, unless that dot is
\* one of the leading dots of the name.
splitext_ext(filename) ==
  LET d == LastIndex(filename, ".")
  IN  IF d > 0 /\ (\E i \in 1..(d - 1) : filename[i] # ".")
      THEN SubSeq(filename, d, Len(filename))
      ELSE <<>>

\* ------------------------------------------------------------- scan_repo.py

\* EXT_TO_LANG: extension -> language name
EXT_TO_LANG ==
  { << <<".", "p", "y">>, "python" >>,
    << <<".", "j", "s">>, "javascript" >>,
    << <<".", "j", "s", "x">>, "jsx" >>,
    << <<".", "t", "s">>, "typescript" >>,
    << <<".", "t", "s", "x">>, "tsx" >>,
    << <<".", "g", "o">>, "go" >>,
    << <<".", "j", "a", "v", "a">>, "java" >>,
    << <<".", "c", "s">>, "csharp" >>,
    << <<".", "p", "h", "p">>, "php" >>,
    << <<".", "r", "b">>, "ruby" >>,
    << <<".", "r", "s">>, "rust" >>,
    << <<".", "c", "p", "p">>, "cpp" >>,
    << <<".", "c">>, "c" >>,
    << <<".", "h">>, "c-header" >>,
    << <<".", "h", "t", "m", "l">>, "html" >>,
    << <<".", "c", "s", "s">>, "css" >>,
    << <<".", "s", "q", "l">>, "sql" >>,
    << <<".", "j", "s", "o", "n">>, "json" >>,
    << <<".", "y", "m", "l">>, "yaml" >>,
    << <<".", "y", "a", "m", "l">>, "yaml" >>,
    << <<".", "t", "e", "x">>, "latex" >> }

\* SKIP_DIRS: directory names that are never descended into
SKIP_DIRS ==
  { <<".", "g", "i", "t">>,
    <<".", "g", "i", "t", "h", "u", "b">>,
    <<"n", "o", "d", "e", "_", "m", "o", "d", "u", "l", "e", "s">>,
    <<"_", "_", "p", "y", "c", "a", "c", "h", "e", "_", "_">>,
    <<"d", "i", "s", "t">>,
    <<"b", "u", "i", "l", "d">>,
    <<".", "v", "e", "n", "v">>,
    <<"v", "e", "n", "v">>,
    <<"c", "o", "n", "v", "e", "r", "t", "e", "d">>,
    <<"c", "o", "n", "v", "e", "r", "t", "e", "d", ".", "p", "y">> }

\* detect_language as it would be without the lower().
detect_language_case_sensitive(filename) ==
  LET ext == splitext_ext(filename)
      hit == {e \in EXT_TO_LANG : e[1] = ext}
  IN  IF hit = {} THEN "unknown" ELSE (CHOOSE e \in hit : TRUE)[2]

\* detect_language(filename): EXT_TO_LANG.get(ext.lower(), "unknown")
detect_language(filename) ==
  LET ext == lower(splitext_ext(filename))
      hit == {e \in EXT_TO_LANG : e[1] = ext}
  IN  IF hit = {} THEN "unknown" ELSE (CHOOSE e \in hit : TRUE)[2]

\* detect_kind as it would be with the config test before the test test.
detect_kind_config_first(path) ==
  LET low == lower(path)
  IN  IF \/ contains(low, <<"c", "o", "n", "f", "i", "g">>)
         \/ endswith(low, <<".", "y", "m", "l">>)
         \/ endswith(low, <<".", "y", "a", "m", "l">>)
      THEN "config"
      ELSE IF \/ contains(low, <<"t", "e", "s", "t">>)
              \/ endswith(low, <<"_", "t", "e", "s", "t", ".", "p", "y">>)
              \/ endswith(low, <<"_", "t", "e", "s", "t", ".", "g", "o">>)
           THEN "test"
           ELSE "source"

\* detect_kind(path)
detect_kind(path) ==
  LET low == lower(path)
  IN  IF \/ contains(low, <<"t", "e", "s", "t">>)
         \/ endswith(low, <<"_", "t", "e", "s", "t", ".", "p", "y">>)
         \/ endswith(low, <<"_", "t", "e", "s", "t", ".", "g", "o">>)
      THEN "test"
      ELSE IF \/ contains(low, <<"c", "o", "n", "f", "i", "g">>)
              \/ endswith(low, <<".", "y", "m", "l">>)
              \/ endswith(low, <<".", "y", "a", "m", "l">>)
           THEN "config"
           ELSE "source"

\* The files of the repository, in the order they are added to it.
AllPaths ==
  << <<"a", ".", "P", "Y">>,
     <<"d", "/", "t", "e", "s", "t", ".", "y", "m", "l">>,
     <<"d", "/", "c", ".", "g", "o">>,
     <<".", "g", "i", "t", "h", "u", "b", "/", "w", ".", "y", "m", "l">>,
     <<"e", "/", "b">>,
     <<"v", "e", "n", "v", "/", "x", ".", "j", "s">> >>

Min(a, b) == IF a < b THEN a ELSE b

Universe == {AllPaths[i] : i \in 1..Min(MaxPaths, Len(AllPaths))}

\* The trees a scan may find: the repository grows one file at a time.
Trees == {{AllPaths[i] : i \in 1..n} : n \in 0..Min(MaxPaths, Len(AllPaths))}

\* Every path a tree may hold, in the order os.walk reports them: the files
\* of a directory, then its subdirectories one after the other.
WalkOrder ==
  << <<"a", ".", "P", "Y">>,
     <<"b", "u", "i", "l", "d">>,
     <<".", "g", "i", "t", "/", "H", "E", "A", "D">>,
     <<".", "g", "i", "t", "h", "u", "b", "/", "w", ".", "y", "m", "l">>,
     <<"D", "i", "s", "t", "/", "k", ".", "c">>,
     <<"c", "o", "n", "v", "e", "r", "t", "e", "d", "/", ".", "p", "y", "/", "s", ".", "p", "y">>,
     <<"d", "/", "t", "e", "s", "t", ".", "y", "m", "l">>,
     <<"d", "/", "c", ".", "g", "o">>,
     <<"d", "/", ".", "g", "i", "t", "h", "u", "b", "/", "w", ".", "y", "m", "l">>,
     <<"d", "/", "n", "o", "d", "e", "_", "m", "o", "d", "u", "l", "e", "s", "/", "m", ".", "j", "s">>,
     <<"e", "/", "b">>,
     <<"s", "/", "d", "i", "s", "t", "/", "a", "/", "k", ".", "c">>,
     <<"v", "e", "n", "v", "/", "x", ".", "j", "s">> >>

\* Walked as it would be if only the directories of the root were pruned.
Walked_root_only(tree) ==
  SelectSeq(WalkOrder,
            LAMBDA p : /\ p \in tree
                       /\ LET segs == Segments(p)
                          IN  Len(segs) > 1 => segs[1] \notin SKIP_DIRS)

\* os.walk with `dirnames[:] = [d for d in dirnames if d not in SKIP_DIRS]`:
\* a file is reported iff none of the directories on its path is skipped.
Walked(tree) ==
  SelectSeq(WalkOrder,
            LAMBDA p : /\ p \in tree
                       /\ LET segs == Segments(p)
                          IN  \A i \in 1..(Len(segs) - 1) : segs[i] \notin SKIP_DIRS)

\* ScanRecord as it would be if the scanner set the status of its records.
ScanRecord_with_status(rel_path) ==
  LET segs == Segments(rel_path)
  IN  [path |-> rel_path,
       language |-> detect_language(segs[Len(segs)]),
       kind |-> detect_kind(rel_path),
       dependencies |-> NULL,
       has_tests |-> FALSE,
       priority_score |-> 0,
       status |-> "pending"]

\* The record scan_repo builds for one file; it carries no "status".
ScanRecord(rel_path) ==
  LET segs == Segments(rel_path)
  IN  [path |-> rel_path,
       language |-> detect_language(segs[Len(segs)]),
       kind |-> detect_kind(rel_path),
       dependencies |-> NULL,
       has_tests |-> FALSE,
       priority_score |-> 0]

\* scan_repo(root_dir): the records of the tree, in traversal order
scan_repo(tree) ==
  LET kept == SelectSeq(Walked(tree),
                        LAMBDA p : ~startswith(p, <<".", "g", "i", "t", "h", "u", "b", "/">>))
  IN  [i \in 1..Len(kept) |-> ScanRecord(kept[i])]

\* ---------------------------------------------------------------- the store

VARIABLES
  files,   \* table files_manifest: the rows in insertion order, id = position
  jobs,    \* table jobs: the rows in insertion order, id = position
  run,     \* per create-jobs run: position in main/create_job and its locals
  val,     \* the validate run: position in main and its locals
  probe    \* one call of a function on its own: its arguments and its result

vars == <<files, jobs, run, val, probe>>

Range(s) == {s[i] : i \in 1..Len(s)}

\* A row after a write of `payload`: the columns the payload names are
\* overwritten, the others are kept.
MergeRow(row, payload) ==
  [k \in DOMAIN row |-> IF k \in DOMAIN payload THEN payload[k] ELSE row[k]]

\* POST files_manifest with Prefer: resolution=merge-duplicates, one record:
\* a row with the record's path is merged, otherwise a new row is inserted
\* with the next id and the column default status = pending.
UpsertOne(table, rec) ==
  IF \E i \in 1..Len(table) : table[i].path = rec.path
  THEN [i \in 1..Len(table) |->
          IF table[i].path = rec.path THEN MergeRow(table[i], rec) ELSE table[i]]
  ELSE Append(table,
              MergeRow([id |-> Len(table) + 1, path |-> rec.path, language |-> NULL,
                        kind |-> NULL, dependencies |-> NULL, has_tests |-> FALSE,
                        priority_score |-> 0, status |-> "pending"],
                       rec))

RECURSIVE UpsertAll(_, _)
UpsertAll(table, records) ==
  IF records = <<>> THEN table
  ELSE UpsertAll(UpsertOne(table, Head(records)), Tail(records))

\* The body scan_repo.py posts: json.dumps(records)
upsert_payload(records) == records

\* PendingQuery as it would be without the status filter.
PendingQuery_no_filter(table, limit) ==
  LET cut == SubSeq(table, 1, IF limit < Len(table) THEN limit ELSE Len(table))
  IN  [i \in 1..Len(cut) |->
         [id |-> cut[i].id, path |-> cut[i].path, language |-> cut[i].language,
          kind |-> cut[i].kind, status |-> cut[i].status]]

\* GET files_manifest?select=id,path,language,kind,status&status=eq.pending&limit=N
PendingQuery(table, limit) ==
  LET hit == SelectSeq(table, LAMBDA row : row.status = "pending")
      cut == SubSeq(hit, 1, Min(limit, Len(hit)))
  IN  [i \in 1..Len(cut) |->
         [id |-> cut[i].id, path |-> cut[i].path, language |-> cut[i].language,
          kind |-> cut[i].kind, status |-> cut[i].status]]

\* What the store may answer: the rows, or the rows with one of them a
\* second time (overlapping pages).
PendingResponses(table, limit) ==
  LET rows == PendingQuery(table, limit)
  IN  {rows} \cup {Append(rows, rows[i]) : i \in 1..Len(rows)}

\* PATCH files_manifest?id=eq.<id> with a partial row
PatchFile(table, file_id, payload) ==
  [i \in 1..Len(table) |->
     IF table[i].id = file_id THEN MergeRow(table[i], payload) ELSE table[i]]

\* POST jobs: one new row, id assigned by the store
InsertJob(table, payload) ==
  Append(table,
         MergeRow([id |-> Len(table) + 1, file_id |-> NULL, file_paths |-> <<>>,
                   status |-> NULL, prompt |-> NULL, converted_code |-> NO_STRING,
                   last_error |-> NULL, updated_at |-> NULL],
                  payload))

\* PATCH jobs?id=eq.<id> with a partial row
PatchJob(table, job_id, payload) ==
  [i \in 1..Len(table) |->
     IF table[i].id = job_id THEN MergeRow(table[i], payload) ELSE table[i]]

\* ----------------------------------------------------------- create_jobs.py

\* DedupeByPath as it would be if the last row of a path were kept.
RECURSIVE DedupeByPath_keep_last(_, _)
DedupeByPath_keep_last(rows, seen) ==
  IF rows = <<>> THEN <<>>
  ELSE IF \E i \in 2..Len(rows) : rows[i].path = Head(rows).path
       THEN DedupeByPath_keep_last(Tail(rows), seen)
       ELSE <<Head(rows)>> \o DedupeByPath_keep_last(Tail(rows), seen)

\* fetch_pending_files, lines 40-49: deduplicate by path, keep first occurrence
RECURSIVE DedupeByPath(_, _)
DedupeByPath(rows, seen) ==
  IF rows = <<>> THEN <<>>
  ELSE IF Head(rows).path \in seen
       THEN DedupeByPath(Tail(rows), seen)
       ELSE <<Head(rows)>> \o DedupeByPath(Tail(rows), seen \cup {Head(rows).path})

\* fetch_pending_files as it would be without the dedupe.
fetch_pending_files_no_dedupe(rows) == rows

fetch_pending_files(rows) == DedupeByPath(rows, {})

\* chunk_list as it would be if a chunk held one item more than size.
RECURSIVE chunk_list_one_more(_, _)
chunk_list_one_more(items, size) ==
  IF items = <<>> THEN <<>>
  ELSE <<SubSeq(items, 1, Min(size + 1, Len(items)))>>
       \o chunk_list_one_more(SubSeq(items, Min(size + 1, Len(items)) + 1, Len(items)), size)

\* chunk_list as it would be if a final chunk shorter than size were dropped.
RECURSIVE chunk_list_full_only(_, _)
chunk_list_full_only(items, size) ==
  IF Len(items) < size THEN <<>>
  ELSE <<SubSeq(items, 1, size)>>
       \o chunk_list_full_only(SubSeq(items, size + 1, Len(items)), size)

\* chunk_list(items, size): items[i : i + size] for i = 0, size, 2*size, ...
RECURSIVE chunk_list(_, _)
chunk_list(items, size) ==
  IF items = <<>> THEN <<>>
  ELSE <<SubSeq(items, 1, Min(size, Len(items)))>>
       \o chunk_list(SubSeq(items, Min(size, Len(items)) + 1, Len(items)), size)

\* REPO_RAW_BASE_URL, an environment value
REPO_RAW_BASE_URL == <<"h", ":", "/", "/", "r">>

make_raw_url(file_path) == REPO_RAW_BASE_URL \o <<"/">> \o file_path

\* A text is a sequence of lines and a line a sequence of pieces, put end to
\* end: a piece is one character of a path or a url, or a literal of the
\* code kept whole.
INDENT == "    "

MARKER_OPEN == "=== FILE: "

MARKER_CLOSE == " ==="

\* build_prompt, lines 80-103: the lines of the f-string above {files_list}
PROMPT_TEMPLATE ==
  << <<INDENT, "CONVERSION TASK (STRICT - NO HALLUCINATIONS)">>,
     <<>>,
     <<INDENT, "You will convert **exactly** the files listed below to <TARGET_LANGUAGE>.">>,
     <<>>,
     <<INDENT, "RULES:">>,
     <<INDENT, "- You MUST fetch each file from its raw GitHub URL (do not guess contents).">>,
     <<INDENT, "- Do NOT invent or assume missing files or functions.">>,
     <<INDENT, "- If any URL is unreachable, STOP and say which one failed.">>,
     <<INDENT, "- NO new features.">>,
     <<INDENT, "- Preserve behavior, inputs, outputs, and public APIs.">>,
     <<INDENT, "- Only convert the files listed; nothing else.">>,
     <<>>,
     <<INDENT, "OUTPUT FORMAT (MUST FOLLOW THIS EXACTLY, ONE BLOCK PER FILE IN ORDER):">>,
     <<>>,
     <<INDENT, MARKER_OPEN>> \o <<"o", "r", "i", "g", "i", "n", "a", "l", "/", "p", "a", "t", "h", ".", "e", "x", "t">> \o <<MARKER_CLOSE>>,
     <<INDENT, "<converted <TARGET_LANGUAGE> code only>">>,
     <<>>,
     <<INDENT, MARKER_OPEN>> \o <<"n", "e", "x", "t", "/", "p", "a", "t", "h", "2", ".", "e", "x", "t">> \o <<MARKER_CLOSE>>,
     <<INDENT, "<converted <TARGET_LANGUAGE> code only>">>,
     <<>>,
     <<INDENT, "(no explanations, no commentary, no extra text)">>,
     <<>>,
     <<INDENT, "FILES TO CONVERT (in order):">> >>

IsSpace(piece) == piece \in WHITESPACE \cup {INDENT}

Blank(line) == \A i \in 1..Len(line) : IsSpace(line[i])

\* The leading whitespace of a line that is not blank.
Indentation(line) ==
  LET k == CHOOSE i \in 1..Len(line) :
             ~IsSpace(line[i]) /\ \A j \in 1..i - 1 : IsSpace(line[j])
  IN  SubSeq(line, 1, k - 1)

\* str.lstrip / str.rstrip of one line
lstrip(line) ==
  IF Blank(line) THEN <<>> ELSE SubSeq(line, Len(Indentation(line)) + 1, Len(line))

rstrip(line) ==
  LET keep == {i \in 1..Len(line) : ~IsSpace(line[i])}
  IN  IF keep = {} THEN <<>>
      ELSE SubSeq(line, 1, CHOOSE i \in keep : \A j \in keep : j <= i)

\* textwrap.dedent: blank lines become empty; the longest whitespace prefix
\* common to the other lines is removed from each of them.
dedent(lines) ==
  LET text == SelectSeq(lines, LAMBDA l : ~Blank(l))
      first == Indentation(text[1])
      common == {k \in 0..Len(first) :
                   \A i \in 1..Len(text) : startswith(Indentation(text[i]), SubSeq(first, 1, k))}
      margin == IF text = <<>> THEN 0 ELSE CHOOSE k \in common : \A m \in common : m <= k
  IN  [i \in 1..Len(lines) |->
         IF Blank(lines[i]) THEN <<>> ELSE SubSeq(lines[i], margin + 1, Len(lines[i]))]

\* str.strip() of a text: blank lines at both ends go, and the whitespace
\* before the first and after the last character that is not whitespace.
strip_text(lines) ==
  LET keep == {i \in 1..Len(lines) : ~Blank(lines[i])}
  IN  IF keep = {} THEN <<>>
      ELSE LET lo == CHOOSE i \in keep : \A j \in keep : i <= j
               hi == CHOOSE i \in keep : \A j \in keep : j <= i
           IN  [i \in 1..(hi - lo + 1) |->
                  LET line == lines[lo + i - 1]
                      left == IF i = 1 THEN lstrip(line) ELSE line
                  IN  IF i = hi - lo + 1 THEN rstrip(left) ELSE left]

DIGITS == <<"0", "1", "2", "3", "4", "5", "6", "7", "8", "9">>

\* str(n) of a natural number
RECURSIVE str_int(_)
str_int(n) ==
  IF n < 10 THEN <<DIGITS[n + 1]>>
  ELSE str_int(n \div 10) \o <<DIGITS[(n % 10) + 1]>>

\* build_prompt, lines 72-75: the line of one file
\* "{idx}. {path} | language={lang} | kind={kind} | url={raw_url}"
file_line(idx, f) ==
  str_int(idx) \o <<". ">> \o f.path
  \o <<" | language=", IF f.language = NULL THEN "unknown" ELSE f.language,
       " | kind=", IF f.kind = NULL THEN "source" ELSE f.kind,
       " | url=">>
  \o make_raw_url(f.path)

\* prompt_formatted as it would be with the files listed last to first.
prompt_formatted_last_first(files_batch) ==
  LET n == Len(files_batch)
      listed == IF n = 0 THEN << <<INDENT>> >>
                ELSE [i \in 1..n |->
                        IF i = 1 THEN <<INDENT>> \o file_line(1, files_batch[n])
                        ELSE file_line(i, files_batch[n + 1 - i])]
  IN  << <<>> >> \o PROMPT_TEMPLATE \o listed \o << <<INDENT>> >>

\* build_prompt, lines 79-104: the f-string with files_list filled in, before
\* dedent; only the first line of files_list stands behind the indentation.
prompt_formatted(files_batch) ==
  LET n == Len(files_batch)
      listed == IF n = 0 THEN << <<INDENT>> >>
                ELSE [i \in 1..n |->
                        IF i = 1 THEN <<INDENT>> \o file_line(1, files_batch[1])
                        ELSE file_line(i, files_batch[i])]
  IN  << <<>> >> \o PROMPT_TEMPLATE \o listed \o << <<INDENT>> >>

\* build_prompt as it would be if it numbered the prompt with the count of
\* the jobs on the store.
build_prompt_counts_jobs(files_batch) ==
  strip_text(dedent(prompt_formatted(files_batch)))
  \o << <<"JOB ">> \o str_int(Len(jobs)) >>

\* build_prompt(files_batch)
build_prompt(files_batch) == strip_text(dedent(prompt_formatted(files_batch)))

\* job_payload as it would be with only the first file's path recorded.
job_payload_first_path_only(files_batch) ==
  [file_id |-> files_batch[1].id,
   file_paths |-> <<files_batch[1].path>>,
   status |-> "queued",
   prompt |-> build_prompt(files_batch)]

\* job_payload as it would be with the last file's id as file_id.
job_payload_last_file_id(files_batch) ==
  [file_id |-> files_batch[Len(files_batch)].id,
   file_paths |-> [i \in 1..Len(files_batch) |-> files_batch[i].path],
   status |-> "queued",
   prompt |-> build_prompt(files_batch)]

\* create_job, lines 117-125: the body of POST jobs
job_payload(files_batch) ==
  [file_id |-> files_batch[1].id,
   file_paths |-> [i \in 1..Len(files_batch) |-> files_batch[i].path],
   status |-> "queued",
   prompt |-> build_prompt(files_batch)]

\* update_payload as it would be with the wrong status value.
update_payload_keeps_pending == [status |-> "pending"]

\* create_job, lines 136-138: the body of PATCH files_manifest
update_payload == [status |-> "in_job"]

\* ------------------------------------------------------------------ state

\* The runs of create_jobs.py that may be alive at the same time.
Runs == {1, 2}

\* pc: idle | post (before POST jobs of batch bi) | patch (before the PATCH of
\*     file fi of batch bi) | done | aborted (a request failed: `failed`)
IdleRun == [pc |-> "idle", batches |-> <<>>, bi |-> 0, fi |-> 0, failed |-> NULL]

\* pc: idle | update (before update_job of jobs[i]) | done | aborted
IdleVal == [pc |-> "idle", jobs |-> <<>>, i |-> 0, failed |-> NULL]

Init ==
  /\ files = <<>>
  /\ jobs = <<>>
  /\ run = [r \in Runs |-> IdleRun]
  /\ val = IdleVal
  /\ probe = NULL

\* ------------------------------------------------- scan_repo.py, __main__

\* upsert_files_manifest(records): nothing is sent for an empty list; the one
\* POST either succeeds or raise_for_status ends the process.
upsert_files_manifest(records, ok) ==
  IF records = <<>> \/ ~ok THEN files
  ELSE UpsertAll(files, upsert_payload(records))

Scan ==
  \E tree \in Trees, ok \in BOOLEAN :
    /\ files' = upsert_files_manifest(scan_repo(tree), ok)
    /\ UNCHANGED <<probe, jobs, run, val>>

\* ------------------------------------------------ create_jobs.py, main()

\* The batch create_job is working on in run r.
Batch(r) == run[r].batches[run[r].bi]

\* NextBatch as it would be if main ended after its first batch.
NextBatch_first_only(st) == [st EXCEPT !.pc = "done"]

\* The position after create_job returned for batch bi: the next batch, or
\* the end of main.
NextBatch(st) ==
  IF st.bi < Len(st.batches)
  THEN [st EXCEPT !.pc = "post", !.bi = st.bi + 1, !.fi = 0]
  ELSE [st EXCEPT !.pc = "done"]

\* after_request_failure as it would be if main caught the exception and
\* went on with the next batch.
after_request_failure_next_batch(st, request) == [NextBatch(st) EXCEPT !.failed = request]

\* raise_for_status on a non-2xx response of `request`: the exception is
\* caught nowhere and ends the process.
after_request_failure(st, request) == [st EXCEPT !.pc = "aborted", !.failed = request]

\* main, lines 152-155: fetch; "No pending files found." ends the run.
MainFetch(r) ==
  /\ run[r].pc = "idle"
  /\ \E resp \in PendingResponses(files, PENDING_LIMIT) :
       LET fetched == fetch_pending_files(resp)
       IN  run' = [run EXCEPT ![r] =
                     IF fetched = <<>>
                     THEN [IdleRun EXCEPT !.pc = "done"]
                     ELSE [IdleRun EXCEPT !.pc = "post",
                                          !.batches = chunk_list(fetched, BATCH_SIZE),
                                          !.bi = 1]]
  /\ UNCHANGED <<probe, files, jobs, val>>

\* fetch_pending_files, line 37: the GET failed
MainFetchFail(r) ==
  /\ run[r].pc = "idle"
  /\ run' = [run EXCEPT ![r] = after_request_failure(run[r], "get")]
  /\ UNCHANGED <<probe, files, jobs, val>>

\* create_job, lines 114-130: an empty batch returns at once; otherwise the
\* job is posted and the POST succeeded.
CreateJobPost(r) ==
  /\ run[r].pc = "post"
  /\ IF Batch(r) = <<>>
     THEN /\ run' = [run EXCEPT ![r] = NextBatch(run[r])]
          /\ UNCHANGED jobs
     ELSE /\ Len(jobs) < MaxJobs
          /\ jobs' = InsertJob(jobs, job_payload(Batch(r)))
          /\ run' = [run EXCEPT ![r] = [run[r] EXCEPT !.pc = "patch", !.fi = 1]]
  /\ UNCHANGED <<probe, files, val>>

\* files_after_post_failure as it would be if the files were marked before
\* the response of the POST is checked.
files_after_post_failure_marked(table, files_batch) ==
  [i \in 1..Len(table) |->
     IF \E n \in 1..Len(files_batch) : files_batch[n].id = table[i].id
     THEN MergeRow(table[i], [status |-> "in_job"])
     ELSE table[i]]

\* The files table after the POST of a job failed: create_job raised before
\* its loop over the files.
files_after_post_failure(table, files_batch) == table

\* create_job, line 130: the POST failed
CreateJobPostFail(r) ==
  /\ run[r].pc = "post"
  /\ Batch(r) # <<>>
  /\ run' = [run EXCEPT ![r] = after_request_failure(run[r], "post")]
  /\ files' = files_after_post_failure(files, Batch(r))
  /\ UNCHANGED <<probe, jobs, val>>

\* create_job, lines 133-148: one PATCH of the loop succeeded
CreateJobPatch(r) ==
  /\ run[r].pc = "patch"
  /\ files' = PatchFile(files, Batch(r)[run[r].fi].id, update_payload)
  /\ run' = [run EXCEPT ![r] =
               IF run[r].fi < Len(Batch(r))
               THEN [run[r] EXCEPT !.fi = run[r].fi + 1]
               ELSE NextBatch(run[r])]
  /\ UNCHANGED <<probe, jobs, val>>

\* create_job, line 148: the PATCH failed
CreateJobPatchFail(r) ==
  /\ run[r].pc = "patch"
  /\ run' = [run EXCEPT ![r] = after_request_failure(run[r], "patch")]
  /\ UNCHANGED <<probe, files, jobs, val>>

\* The process ended; the next run starts from scratch.
MainExit(r) ==
  /\ run[r].pc \in {"done", "aborted"}
  /\ run' = [run EXCEPT ![r] = IdleRun]
  /\ UNCHANGED <<probe, files, jobs, val>>

CreateJobsStep(r) ==
  \/ MainFetch(r)
  \/ MainFetchFail(r)
  \/ CreateJobPost(r)
  \/ CreateJobPostFail(r)
  \/ CreateJobPatch(r)
  \/ CreateJobPatchFail(r)
  \/ MainExit(r)

\* --------------------------------------------------------- validate_jobs.py

\* fetch_jobs_to_validate as it would be without the status filter.
fetch_jobs_to_validate_no_filter(table) ==
  LET cut == SubSeq(table, 1, Min(VALIDATE_LIMIT, Len(table)))
  IN  [i \in 1..Len(cut) |->
         [id |-> cut[i].id, file_id |-> cut[i].file_id, status |-> cut[i].status,
          converted_code |-> cut[i].converted_code, last_error |-> cut[i].last_error]]

\* GET jobs?select=id,file_id,status,converted_code,last_error
\*          &status=eq.converted_pending_validation&limit=100
fetch_jobs_to_validate(table) ==
  LET hit == SelectSeq(table, LAMBDA row : row.status = "converted_pending_validation")
      cut == SubSeq(hit, 1, Min(VALIDATE_LIMIT, Len(hit)))
  IN  [i \in 1..Len(cut) |->
         [id |-> cut[i].id, file_id |-> cut[i].file_id, status |-> cut[i].status,
          converted_code |-> cut[i].converted_code, last_error |-> cut[i].last_error]]

NO_CODE_ERROR == "No converted_code saved for this job."

\* validation_outcome as it would be without the strip().
validation_outcome_no_strip(job) ==
  LET code == IF job.converted_code = NO_STRING THEN <<>> ELSE job.converted_code
  IN  IF code = <<>>
      THEN [new_status |-> "failed_validation", error_message |-> NO_CODE_ERROR]
      ELSE [new_status |-> "converted_ok", error_message |-> NULL]

\* main, lines 73-82: the status and error message chosen for one job
validation_outcome(job) ==
  LET code == IF job.converted_code = NO_STRING THEN <<>> ELSE job.converted_code
      code_stripped == strip(code)
  IN  IF code_stripped = <<>>
      THEN [new_status |-> "failed_validation", error_message |-> NO_CODE_ERROR]
      ELSE [new_status |-> "converted_ok", error_message |-> NULL]

\* update_job_payload as it would be if the update also cleared file_paths.
update_job_payload_clears_paths(new_status, error_message) ==
  [status |-> new_status, last_error |-> error_message, updated_at |-> "utcnow",
   file_paths |-> <<>>]

\* update_job, lines 44-48: the body of PATCH jobs
update_job_payload(new_status, error_message) ==
  [status |-> new_status, last_error |-> error_message, updated_at |-> "utcnow"]

\* main, lines 64-69: fetch; "Nothing to validate." ends the run.
ValidateFetch ==
  /\ val.pc = "idle"
  /\ LET fetched == fetch_jobs_to_validate(jobs)
     IN  val' = IF fetched = <<>>
                THEN [IdleVal EXCEPT !.pc = "done"]
                ELSE [IdleVal EXCEPT !.pc = "update", !.jobs = fetched, !.i = 1]
  /\ UNCHANGED <<probe, files, jobs, run>>

\* fetch_jobs_to_validate, line 34: the GET failed
ValidateFetchFail ==
  /\ val.pc = "idle"
  /\ val' = [IdleVal EXCEPT !.pc = "aborted", !.failed = "get"]
  /\ UNCHANGED <<probe, files, jobs, run>>

\* after_update as it would be if main returned after the first job.
after_update_first_only(st) == [st EXCEPT !.pc = "done", !.i = st.i + 1]

\* The validate run after update_job returned for jobs[i].
after_update(st) ==
  IF st.i < Len(st.jobs)
  THEN [st EXCEPT !.i = st.i + 1]
  ELSE [st EXCEPT !.pc = "done", !.i = st.i + 1]

\* main, lines 71-82 with update_job: the PATCH of jobs[i] succeeded
ValidateUpdate ==
  /\ val.pc = "update"
  /\ LET job == val.jobs[val.i]
         out == validation_outcome(job)
     IN  jobs' = PatchJob(jobs, job.id, update_job_payload(out.new_status, out.error_message))
  /\ val' = after_update(val)
  /\ UNCHANGED <<probe, files, run>>

\* The validate run after update_job raised for jobs[i]: nothing in main
\* catches the exception.
after_update_failure(st) == [st EXCEPT !.pc = "aborted", !.failed = "patch"]

\* update_job, line 60: the PATCH of jobs[i] failed
ValidateUpdateFail ==
  /\ val.pc = "update"
  /\ val' = after_update_failure(val)
  /\ UNCHANGED <<probe, files, jobs, run>>

ValidateExit ==
  /\ val.pc \in {"done", "aborted"}
  /\ val' = IdleVal
  /\ UNCHANGED <<probe, files, jobs, run>>

ValidateStep ==
  \/ ValidateFetch
  \/ ValidateFetchFail
  \/ ValidateUpdate
  \/ ValidateUpdateFail
  \/ ValidateExit

\* ------------------------------------------------ the external converter

\* The artifacts the converter may write back.
Codes ==
  {NO_STRING, <<>>, <<" ", "\n">>, <<" ", "x", "\n">>}

\* A queued job gets its artifact and awaits validation.
Convert ==
  \E j \in 1..Len(jobs), code \in Codes :
    /\ jobs[j].status = "queued"
    /\ jobs' = PatchJob(jobs, jobs[j].id,
                        [status |-> "converted_pending_validation",
                         converted_code |-> code, updated_at |-> "utcnow"])
    /\ UNCHANGED <<probe, files, run, val>>

\* ---------------------------------------------- whole runs, direct calls

\* The batches create_job may be handed: up to BATCH_SIZE distinct pending
\* rows in any order, or no row at all.
CallBatches ==
  LET rows == PendingQuery(files, PENDING_LIMIT)
      seqs == UNION {[1..n -> 1..Len(rows)] : n \in 0..Min(BATCH_SIZE, Len(rows))}
  IN  {[i \in DOMAIN q |-> rows[q[i]]] :
         q \in {q \in seqs : \A i, j \in DOMAIN q : i # j => q[i] # q[j]}}

\* create_job(files_batch) called on its own.
SubmitCall(r) ==
  /\ run[r].pc = "idle"
  /\ \E batch \in CallBatches :
       run' = [run EXCEPT ![r] = [IdleRun EXCEPT !.pc = "post", !.batches = <<batch>>, !.bi = 1]]
  /\ UNCHANGED <<probe, files, jobs, val>>

RECURSIVE InsertJobs(_, _)
InsertJobs(table, batches) ==
  IF batches = <<>> THEN table
  ELSE InsertJobs(InsertJob(table, job_payload(Head(batches))), Tail(batches))

RECURSIVE PatchFiles(_, _)
PatchFiles(table, rows) ==
  IF rows = <<>> THEN table
  ELSE PatchFiles(PatchFile(table, Head(rows).id, update_payload), Tail(rows))

\* main() of create_jobs.py from its first to its last line, when every
\* request succeeds and no other process runs meanwhile.
CreateJobsRun ==
  LET fetched == fetch_pending_files(PendingQuery(files, PENDING_LIMIT))
      batches == chunk_list(fetched, BATCH_SIZE)
  IN  /\ fetched # <<>>
      /\ Len(jobs) + Len(batches) <= MaxJobs
      /\ jobs' = InsertJobs(jobs, batches)
      /\ files' = PatchFiles(files, fetched)
      /\ UNCHANGED <<probe, run, val>>

\* ---------------------------------------------------------- specifications

\* Runs of the three scripts and the converter; create-jobs runs one at a
\* time.
Next ==
  \/ Scan
  \/ CreateJobsStep(1)
  \/ Convert
  \/ ValidateStep

Spec == Init /\ [][Next]_vars

\* Scans and create-jobs runs, one at a time.
NextCreate ==
  \/ Scan
  \/ CreateJobsStep(1)

SpecCreate == Init /\ [][NextCreate]_vars

\* Two create-jobs runs at the same time.
NextConc ==
  \/ Scan
  \/ \E r \in Runs : CreateJobsStep(r)

SpecConc == Init /\ [][NextConc]_vars

\* create_job called on its own, once, with any batch of pending rows, on a
\* store filled by scans and failure-free create-jobs runs.
NextSubmit ==
  \/ Scan
  \/ CreateJobsRun
  \/ SubmitCall(1)
  \/ CreateJobPost(1)
  \/ CreateJobPostFail(1)
  \/ CreateJobPatch(1)
  \/ CreateJobPatchFail(1)

SpecSubmit == Init /\ [][NextSubmit]_vars

\* The validator and the converter, on the jobs of failure-free create-jobs
\* runs.
NextValidate ==
  \/ Scan
  \/ CreateJobsRun
  \/ Convert
  \/ ValidateStep

SpecValidate == Init /\ [][NextValidate]_vars

\* ------------------------------------------------------------------ claims

PathsOf(rows) == {rows[i].path : i \in 1..Len(rows)}

\* What any fetch_pending_files call would return the paths of, in the
\* current store state.
FetchablePaths ==
  UNION {PathsOf(fetch_pending_files(resp)) : resp \in PendingResponses(files, PENDING_LIMIT)}

\* The batches of run r for which create_job has returned normally.
Returned(r) ==
  {k \in 1..Len(run[r].batches) :
     \/ run[r].pc = "done"
     \/ run[r].pc \in {"post", "patch", "aborted"} /\ k < run[r].bi}

\* The batches of run r whose job has been posted.
Posted(r) ==
  Returned(r) \cup
  {k \in 1..Len(run[r].batches) :
     /\ k = run[r].bi
     /\ \/ run[r].pc = "patch"
        \/ run[r].pc = "aborted" /\ run[r].failed = "patch"}

StatusOf(file_id) == files[file_id].status

\* C1: across non-overlapping create-jobs runs, each of which completes or
\* aborts at a failed request, no path is in the file_paths of two jobs.
C1_NoPathInTwoJobs ==
  \A j1, j2 \in 1..Len(jobs) :
    j1 # j2 => Range(jobs[j1].file_paths) \cap Range(jobs[j2].file_paths) = {}

\* C2: a row that is in_job stays in_job with its path, no fetch of pending
\* files returns it from then on, and the rows a run has just fetched are not
\* in_job, whatever scans, create-jobs runs and validate runs do.
C2_ClaimedNeverRefetched ==
  [][/\ \A i \in 1..Len(files) :
          files[i].status = "in_job" =>
            /\ i <= Len(files')
            /\ files'[i].status = "in_job"
            /\ files'[i].path = files[i].path
            /\ \A resp \in PendingResponses(files', PENDING_LIMIT) :
                 files[i].path \notin PathsOf(fetch_pending_files(resp))
     /\ (run[1].pc = "idle" /\ run'[1].pc = "post") =>
          \A k \in 1..Len(run'[1].batches) :
            \A n \in 1..Len(run'[1].batches[k]) :
              StatusOf(run'[1].batches[k][n].id) # "in_job"]_vars

\* C2 witness: a run has fetched its rows while another row, claimed by an
\* earlier run, is in_job; the whole tree has been scanned again since.
C2_Witness ==
  /\ run[1].pc = "post" /\ run[1].bi = 1
  /\ \A n \in 1..Len(Batch(1)) : StatusOf(Batch(1)[n].id) = "pending"
  /\ \E i \in 1..Len(files) : files[i].status = "in_job"
  /\ Len(files) = Len(scan_repo(Universe))

\* C3: once create_job has returned normally for a batch, no fetch of pending
\* files returns a row with a path of that batch.
C3_SubmittedNotPending ==
  \A k \in Returned(1) : PathsOf(run[1].batches[k]) \cap FetchablePaths = {}

\* C3 witness: create_job has returned for a batch of two files while another
\* file is still fetchable.
C3_Witness ==
  /\ 1 \in Returned(1)
  /\ Len(run[1].batches[1]) = 2
  /\ \A n \in 1..2 : StatusOf(run[1].batches[1][n].id) = "in_job"
  /\ FetchablePaths # {}

\* C4: when create_job ends, normally or on a failed file update, every file
\* of the batch is in_job or none is.
C4_AllOrNothing ==
  \A k \in Posted(1) :
    (k \in Returned(1) \/ run[1].pc = "aborted") =>
      \/ \A n \in 1..Len(run[1].batches[k]) : StatusOf(run[1].batches[k][n].id) = "in_job"
      \/ \A n \in 1..Len(run[1].batches[k]) : StatusOf(run[1].batches[k][n].id) # "in_job"

\* C5: the file updates start only after the job of the batch has been
\* created; when the POST fails, no file of the batch is in_job and every one
\* is returned by the next fetch of pending files.
C5_PostFailureLeavesPending ==
  /\ (run[1].pc = "patch") =>
       \E j \in 1..Len(jobs) :
         jobs[j].file_paths = [n \in 1..Len(Batch(1)) |-> Batch(1)[n].path]
  /\ (run[1].pc = "aborted" /\ run[1].failed = "post") =>
       \A n \in 1..Len(Batch(1)) :
         /\ StatusOf(Batch(1)[n].id) = "pending"
         /\ \A resp \in PendingResponses(files, PENDING_LIMIT) :
              Batch(1)[n].path \in PathsOf(fetch_pending_files(resp))

\* C5 witness: the POST of the second batch failed after the first batch
\* went through.
C5_Witness ==
  /\ run[1].pc = "aborted" /\ run[1].failed = "post"
  /\ run[1].bi = 2
  /\ Len(Batch(1)) >= 1

\* The jobs whose file_paths hold the path.
JobsWith(path) == {j \in 1..Len(jobs) : path \in Range(jobs[j].file_paths)}

\* C6: create_job never looks at a file's status again: when two runs alive
\* at the same time have both posted a batch holding the same fetched file,
\* that file's path is in the file_paths of two different jobs.
C6_BothPostedBothEnqueued ==
  \A r1, r2 \in Runs :
    r1 # r2 =>
      \A k1 \in Posted(r1), k2 \in Posted(r2) :
        \A path \in PathsOf(run[r1].batches[k1]) \cap PathsOf(run[r2].batches[k2]) :
          Cardinality(JobsWith(path)) >= 2

\* C6 witness: both runs fetched the same file while it was pending, both
\* have posted their job and neither has marked the file yet.
C6_Witness ==
  \E path \in PathsOf(files) :
    /\ \A r \in Runs :
         /\ run[r].pc = "patch" /\ run[r].bi = 1 /\ run[r].fi = 1
         /\ path \in PathsOf(Batch(r))
    /\ \A i \in 1..Len(files) : files[i].path = path => files[i].status = "pending"
    /\ Cardinality(JobsWith(path)) = 2

\* C7: for every tree, upserting its scan leaves one row per path, keeps the
\* id, path and status of every existing row (an in_job row stays in_job),
\* gives only new rows the default pending, and upserting the same scan a
\* second time changes nothing.
C7_UpsertIdempotent ==
  \A tree \in Trees :
    LET records == upsert_payload(scan_repo(tree))
        once == UpsertAll(files, records)
        twice == UpsertAll(once, records)
    IN  /\ twice = once
        /\ \A i, j \in 1..Len(once) : i # j => once[i].path # once[j].path
        /\ PathsOf(once) = PathsOf(files) \cup PathsOf(records)
        /\ Len(once) >= Len(files)
        /\ \A i \in 1..Len(files) :
             /\ once[i].id = files[i].id
             /\ once[i].path = files[i].path
             /\ once[i].status = files[i].status
        /\ \A i \in (Len(files) + 1)..Len(once) : once[i].status = "pending"

\* C7 witness: the whole tree is in the store, one of its rows in_job and
\* another pending, so that the next scan is a second upsert of known paths.
C7_Witness ==
  /\ Len(files) = Len(scan_repo(Universe))
  /\ \E i, j \in 1..Len(files) : files[i].status = "in_job" /\ files[j].status = "pending"

\* C8: a create_job call on a non-empty batch whose POST succeeds appends
\* exactly one job: queued, file_paths the batch's paths in batch order,
\* file_id the id of the batch's first file, and its later steps add no job;
\* a call on an empty batch returns with the jobs and the files as they were.
C8_OneJobPerBatch ==
  [][(run'[1] # run[1] /\ run[1].pc \in {"post", "patch"}) =>
       IF run[1].pc = "patch" THEN jobs' = jobs
       ELSE IF Batch(1) = <<>>
            THEN jobs' = jobs /\ files' = files /\ run'[1].pc = "done"
            ELSE /\ files' = files
                 /\ \/ run'[1].pc = "aborted" /\ jobs' = jobs
                    \/ /\ run'[1].pc = "patch"
                       /\ Len(jobs') = Len(jobs) + 1
                       /\ SubSeq(jobs', 1, Len(jobs)) = jobs
                       /\ jobs'[Len(jobs')].status = "queued"
                       /\ jobs'[Len(jobs')].file_paths =
                            [n \in 1..Len(Batch(1)) |-> Batch(1)[n].path]
                       /\ jobs'[Len(jobs')].file_id = Batch(1)[1].id]_vars

\* C8 witness: create_job has returned for a batch of two files handed over
\* in the reverse of their table order, and the job is in the table.
C8_Witness ==
  /\ run[1].pc = "done"
  /\ Len(run[1].batches[1]) = 2
  /\ run[1].batches[1][1].id > run[1].batches[1][2].id
  /\ \E j \in 1..Len(jobs) :
       /\ jobs[j].file_paths = <<run[1].batches[1][1].path, run[1].batches[1][2].path>>
       /\ jobs[j].file_id = run[1].batches[1][1].id

\* The empty batch: create_job has returned at once.
C8_EmptyBatchReturned ==
  run[1].pc = "done" /\ run[1].batches = << <<>> >>

\* converted_code is present and not empty once surrounding whitespace is
\* dropped.
HasCode(code) ==
  code # <<"None">> /\ \E i \in 1..Len(code) : code[i] \notin {" ", "\t", "\n", "\r"}

\* The jobs of the validate run's list for which update_job has returned.
Updated == {k \in 1..Len(val.jobs) : k < val.i}

\* C9: when the update of one job fails in a validate run, every other job
\* of the fetched list, before and after it, still gets its terminal status.
C9_FaultIsolation ==
  (val.pc = "aborted" /\ val.failed = "patch") =>
    \A k \in 1..Len(val.jobs) :
      k # val.i => jobs[val.jobs[k].id].status \in {"converted_ok", "failed_validation"}

\* C10: a job the validator has processed is converted_ok with last_error
\* null iff its converted_code is present and not blank, and otherwise
\* failed_validation with the fixed diagnostic as last_error.
C10_PassIffCode ==
  /\ \A k \in Updated :
       LET row == jobs[val.jobs[k].id]
       IN  IF HasCode(val.jobs[k].converted_code)
           THEN row.status = "converted_ok" /\ row.last_error = NULL
           ELSE /\ row.status = "failed_validation"
                /\ row.last_error = "No converted_code saved for this job."
  /\ \A j \in 1..Len(jobs) :
       /\ jobs[j].status = "converted_ok" =>
            HasCode(jobs[j].converted_code) /\ jobs[j].last_error = NULL
       /\ jobs[j].status = "failed_validation" =>
            /\ ~HasCode(jobs[j].converted_code)
            /\ jobs[j].last_error = "No converted_code saved for this job."

\* C10 witness: one validate run has passed a job whose code has whitespace
\* around it and failed a job whose code is whitespace only.
C10_Witness ==
  /\ val.pc = "done"
  /\ \E a, b \in Updated :
       /\ val.jobs[a].converted_code = <<" ", "x", "\n">>
       /\ jobs[val.jobs[a].id].status = "converted_ok"
       /\ val.jobs[b].converted_code = <<" ", "\n">>
       /\ jobs[val.jobs[b].id].status = "failed_validation"


\* ------------------------------------------- C11: a backlog of jobs to validate

\* Jobs pile up between two validate runs: every create-jobs run adds jobs
\* and the converter hands them over one by one.  The backlog has n jobs,
\* each made by create_job for the first batch of a scanned tree and then
\* given an artifact by the converter: `odd` for the jobs with an odd id,
\* `even` for the others.
BacklogSizes == {1, VALIDATE_LIMIT, VALIDATE_LIMIT + 1}

ScannedFiles == UpsertAll(<<>>, upsert_payload(scan_repo(Universe)))

Backlog(n, odd, even) ==
  LET batch == chunk_list(fetch_pending_files(PendingQuery(ScannedFiles, PENDING_LIMIT)),
                          BATCH_SIZE)[1]
      made == InsertJob(<<>>, job_payload(batch))
      handed(code) == PatchJob(made, 1, [status |-> "converted_pending_validation",
                                         converted_code |-> code, updated_at |-> "utcnow"])
  IN  [j \in 1..n |-> [handed(IF j % 2 = 1 THEN odd ELSE even)[1] EXCEPT !.id = j]]

InitBacklog ==
  /\ files = ScannedFiles
  /\ \E n \in BacklogSizes, odd \in Codes, even \in Codes : jobs = Backlog(n, odd, even)
  /\ run = [r \in Runs |-> IdleRun]
  /\ val = IdleVal
  /\ probe = NULL

\* Validate runs in which every request succeeds.
NextBacklog ==
  \/ ValidateFetch
  \/ ValidateUpdate
  \/ ValidateExit

SpecBacklog == InitBacklog /\ [][NextBacklog]_vars

\* C11: when a validate run in which no request failed has ended, no job
\* awaits validation any more (in SpecBacklog no job starts to await
\* validation during a run, so a job that does was doing so when the run
\* started).
C11_RunLeavesNoneAwaiting ==
  val.pc = "done" =>
    \A j \in 1..Len(jobs) : jobs[j].status # "converted_pending_validation"


\* C11 as amended: when a validate run in which no request failed has ended,
\* a job that still awaits validation is not among the first VALIDATE_LIMIT
\* jobs that did when the run started; up to VALIDATE_LIMIT jobs, none is left.
C11_RunLeavesNoneOfTheFetched ==
  val.pc = "done" =>
    \A j \in 1..Len(jobs) :
      jobs[j].status = "converted_pending_validation" => j > VALIDATE_LIMIT

\* A run has ended over VALIDATE_LIMIT jobs, some passed and some failed.
C11_Witness ==
  /\ val.pc = "done"
  /\ Len(jobs) = VALIDATE_LIMIT
  /\ val.i = VALIDATE_LIMIT + 1
  /\ jobs[1].status = "failed_validation"
  /\ jobs[VALIDATE_LIMIT].status = "converted_ok"


\* --------------------------------------------------------- C12: job lifecycle

TerminalStatuses == {"converted_ok", "failed_validation"}

\* C12: a job is created queued; its status changes only from queued to
\* converted_pending_validation, and not by the validator, or from
\* converted_pending_validation to converted_ok or failed_validation; a step
\* of the validator leaves a queued job as it is; a terminal status stays.
C12_Lifecycle ==
  [][/\ Len(jobs') >= Len(jobs)
     /\ \A j \in 1..Len(jobs') :
          IF j > Len(jobs)
          THEN jobs'[j].status = "queued"
          ELSE /\ \/ jobs'[j].status = jobs[j].status
                  \/ /\ jobs[j].status = "queued"
                     /\ jobs'[j].status = "converted_pending_validation"
                     /\ val' = val
                  \/ /\ jobs[j].status = "converted_pending_validation"
                     /\ jobs'[j].status \in TerminalStatuses
               /\ (jobs[j].status = "queued" /\ val' # val) => jobs'[j] = jobs[j]
               /\ jobs[j].status \in TerminalStatuses => jobs'[j].status = jobs[j].status
    ]_vars

\* A validate run has ended: it took one job to a terminal status and left
\* the queued job alone.
C12_Witness ==
  /\ val.pc = "done"
  /\ val.i = 2
  /\ Len(jobs) = 2
  /\ jobs[1].status \in TerminalStatuses
  /\ jobs[2].status = "queued"


\* ------------------------------------------------- C13: chunk_list on its own

\* The longest list handed to chunk_list.
MaxItems == 45

\* BATCH_SIZE as create_jobs.py sets it.
CODE_BATCH_SIZE == 20

ChunkSizes == {BATCH_SIZE, CODE_BATCH_SIZE}

\* A call chunk_list(items, size) that has not run yet; the items are told
\* apart by their position.
ChunkCalls ==
  {[call |-> "chunk_list", items |-> [i \in 1..n |-> i], size |-> size,
    returned |-> FALSE, result |-> <<>>] : n \in 0..MaxItems, size \in ChunkSizes}

InitChunk ==
  /\ files = <<>>
  /\ jobs = <<>>
  /\ run = [r \in Runs |-> IdleRun]
  /\ val = IdleVal
  /\ probe \in ChunkCalls

ChunkListCall ==
  /\ probe.call = "chunk_list"
  /\ ~probe.returned
  /\ probe' = [probe EXCEPT !.returned = TRUE,
                            !.result = chunk_list(probe.items, probe.size)]
  /\ UNCHANGED <<files, jobs, run, val>>

NextChunk == ChunkListCall

SpecChunk == InitChunk /\ [][NextChunk]_vars

RECURSIVE Flatten(_)
Flatten(seqs) == IF seqs = <<>> THEN <<>> ELSE Head(seqs) \o Flatten(Tail(seqs))

\* C13: the chunks of chunk_list, put end to end, are the input; every chunk
\* but the last has exactly `size` items; the last has Len(items) mod size
\* items, or size when that is 0; an empty input has no chunk.
C13_ChunksPartition ==
  (probe.call = "chunk_list" /\ probe.returned) =>
    LET chunks == probe.result
        n == Len(probe.items)
    IN  /\ Flatten(chunks) = probe.items
        /\ \A k \in 1..Len(chunks) - 1 : Len(chunks[k]) = probe.size
        /\ n = 0 => chunks = <<>>
        /\ n > 0 => /\ chunks # <<>>
                    /\ Len(chunks[Len(chunks)]) =
                         (IF n % probe.size = 0 THEN probe.size ELSE n % probe.size)

\* 45 items in chunks of 20: sizes 20, 20, 5.
C13_Witness ==
  /\ probe.call = "chunk_list"
  /\ probe.returned
  /\ Len(probe.items) = 45
  /\ probe.size = CODE_BATCH_SIZE
  /\ [k \in 1..Len(probe.result) |-> Len(probe.result[k])] = <<20, 20, 5>>


\* --------------------------------- C14: fetch_pending_files' dedupe on its own

\* The longest answer handed to the dedupe.
MaxRows == 3

\* Rows an answer may hold: the same path may come with different ids.
AnswerRows ==
  {[id |-> id, path |-> path, language |-> "python", kind |-> "source", status |-> "pending"] :
     id \in 1..MaxRows, path \in {<<"a">>, <<"b">>}}

DedupeCalls ==
  {[call |-> "fetch_pending_files", rows |-> rows, returned |-> FALSE, result |-> <<>>] :
     rows \in UNION {[1..n -> AnswerRows] : n \in 0..MaxRows}}

InitDedupe ==
  /\ files = <<>>
  /\ jobs = <<>>
  /\ run = [r \in Runs |-> IdleRun]
  /\ val = IdleVal
  /\ probe \in DedupeCalls

FetchPendingFilesCall ==
  /\ probe.call = "fetch_pending_files"
  /\ ~probe.returned
  /\ probe' = [probe EXCEPT !.returned = TRUE,
                            !.result = fetch_pending_files(probe.rows)]
  /\ UNCHANGED <<files, jobs, run, val>>

NextDedupe == FetchPendingFilesCall

SpecDedupe == InitDedupe /\ [][NextDedupe]_vars

\* The position of the first row of `rows` with this path.
FirstIndex(rows, path) ==
  CHOOSE i \in 1..Len(rows) :
    /\ rows[i].path = path
    /\ \A j \in 1..i - 1 : rows[j].path # path

\* C14: the deduplicated list has every path of the answer once, each with
\* the row of its first occurrence, in the order of the first occurrences.
C14_FirstOccurrenceWins ==
  (probe.call = "fetch_pending_files" /\ probe.returned) =>
    LET rows == probe.rows
        out == probe.result
    IN  /\ {out[k].path : k \in 1..Len(out)} = {rows[i].path : i \in 1..Len(rows)}
        /\ \A k, l \in 1..Len(out) : k # l => out[k].path # out[l].path
        /\ \A k \in 1..Len(out) : out[k] = rows[FirstIndex(rows, out[k].path)]
        /\ \A k, l \in 1..Len(out) :
             k < l => FirstIndex(rows, out[k].path) < FirstIndex(rows, out[l].path)

\* The third row repeats the path of the first with another id and is dropped.
C14_Witness ==
  /\ probe.call = "fetch_pending_files"
  /\ probe.returned
  /\ Len(probe.rows) = 3
  /\ probe.rows[1].path = probe.rows[3].path
  /\ probe.rows[1].id # probe.rows[3].id
  /\ probe.rows[2].path # probe.rows[1].path
  /\ probe.result = <<probe.rows[1], probe.rows[2]>>


\* ---------------------------------------------- C15: planning is repeatable

IsMarkerLine(line) ==
  LET l == lstrip(line)
  IN  Len(l) >= 2 /\ l[1] = MARKER_OPEN /\ l[Len(l)] = MARKER_CLOSE

\* The paths a split of the text on the marker gives, in order.
MarkerPaths(doc) ==
  LET hit == SelectSeq(doc, IsMarkerLine)
  IN  [k \in 1..Len(hit) |-> SubSeq(lstrip(hit[k]), 2, Len(lstrip(hit[k])) - 1)]

\* The lines below "FILES TO CONVERT (in order):".
ListedLines(doc) ==
  LET at == CHOOSE i \in 1..Len(doc) : lstrip(doc[i]) = <<"FILES TO CONVERT (in order):">>
  IN  SubSeq(doc, at + 1, Len(doc))

PieceIndex(line, piece) ==
  CHOOSE i \in 1..Len(line) : line[i] = piece /\ \A j \in 1..i - 1 : line[j] # piece

\* "<idx>. <path> | language=...": the index and the path of a listed line,
\* whatever whitespace stands before the index
ListedIndex(line) == lstrip(SubSeq(line, 1, PieceIndex(line, ". ") - 1))

ListedPath(line) ==
  SubSeq(line, PieceIndex(line, ". ") + 1, PieceIndex(line, " | language=") - 1)

\* C16 as claimed: splitting a job's prompt on the marker gives the paths of
\* the job's batch, in batch order.
C16_MarkersCarryBatchPaths ==
  \A j \in 1..Len(jobs) : MarkerPaths(jobs[j].prompt) = jobs[j].file_paths

\* C16 as amended: the prompt of a job lists the files of its batch below
\* "FILES TO CONVERT (in order):", one line per file in batch order, numbered
\* from 1, each with its path; its only marker lines are the two of the
\* fixed OUTPUT FORMAT text, with the paths original/path.ext and
\* next/path2.ext.
C16_PromptListsBatch ==
  \A j \in 1..Len(jobs) :
    LET doc == jobs[j].prompt
        listed == ListedLines(doc)
    IN  /\ Len(listed) = Len(jobs[j].file_paths)
        /\ \A i \in 1..Len(listed) :
             /\ ListedIndex(listed[i]) = str_int(i)
             /\ ListedPath(listed[i]) = jobs[j].file_paths[i]
        /\ MarkerPaths(doc) =
             << <<"o", "r", "i", "g", "i", "n", "a", "l", "/", "p", "a", "t", "h", ".", "e", "x", "t">>,
                <<"n", "e", "x", "t", "/", "p", "a", "t", "h", "2", ".", "e", "x", "t">> >>

\* A job for a batch of two files, the second file of the table first.
C16_Witness ==
  \E j \in 1..Len(jobs) :
    /\ Len(jobs[j].file_paths) = 2
    /\ jobs[j].file_id = 2
    /\ Len(ListedLines(jobs[j].prompt)) = 2


\* --------------------------------------------------- C17: scan_repo on its own

ScanCalls ==
  {[call |-> "scan_repo", tree |-> tree, returned |-> FALSE, result |-> <<>>] :
     tree \in SUBSET Range(WalkOrder)}

InitScan ==
  /\ files = <<>>
  /\ jobs = <<>>
  /\ run = [r \in Runs |-> IdleRun]
  /\ val = IdleVal
  /\ probe \in ScanCalls

ScanRepoCall ==
  /\ probe.call = "scan_repo"
  /\ ~probe.returned
  /\ probe' = [probe EXCEPT !.returned = TRUE, !.result = scan_repo(probe.tree)]
  /\ UNCHANGED <<files, jobs, run, val>>

NextScan == ScanRepoCall

SpecScan == InitScan /\ [][NextScan]_vars

\* C17: no record of the scanner has a path with a directory of SKIP_DIRS on
\* it, at any depth, or a path that starts with ".github/".
C17_NoRecordUnderExcluded ==
  (probe.call = "scan_repo" /\ probe.returned) =>
    \A k \in 1..Len(probe.result) :
      LET path == probe.result[k].path
          segs == Segments(path)
      IN  /\ path \in probe.tree
          /\ \A i \in 1..(Len(segs) - 1) : segs[i] \notin SKIP_DIRS
          /\ ~startswith(path, <<".", "g", "i", "t", "h", "u", "b", "/">>)

\* A tree with a file two levels below node_modules' parent, a file named
\* build and an ordinary file: the last two have records, the first has none.
C17_Witness ==
  /\ probe.call = "scan_repo"
  /\ probe.returned
  /\ <<"d", "/", "n", "o", "d", "e", "_", "m", "o", "d", "u", "l", "e", "s", "/", "m", ".", "j", "s">>
       \in probe.tree
  /\ <<"s", "/", "d", "i", "s", "t", "/", "a", "/", "k", ".", "c">> \in probe.tree
  /\ {probe.result[k].path : k \in 1..Len(probe.result)} =
       {<<"b", "u", "i", "l", "d">>, <<"d", "/", "c", ".", "g", "o">>}


\* ------------------------------------- C18: a failed request ends the run

\* C18: in a create-jobs run a request that fails aborts the run and writes
\* nothing; while the run is aborted no job is added and no file becomes
\* in_job, and the run's only step is to end.
C18_FailureEndsRun ==
  [][/\ run'[1].failed # NULL => run'[1].pc = "aborted"
     /\ (run[1].failed = NULL /\ run'[1].failed # NULL) => (files' = files /\ jobs' = jobs)
     /\ run[1].pc = "aborted" =>
          /\ Len(jobs') = Len(jobs)
          /\ Len(files') >= Len(files)
          /\ \A i \in 1..Len(files) :
               files'[i].status = "in_job" => files[i].status = "in_job"
          /\ run'[1] # run[1] => (run'[1] = IdleRun /\ files' = files /\ jobs' = jobs)
    ]_vars

\* The POST of the first of two batches failed: the second batch is never
\* submitted and no file of the run is marked.
C18_Witness ==
  /\ run[1].pc = "aborted"
  /\ run[1].failed = "post"
  /\ run[1].bi = 1
  /\ Len(run[1].batches) = 2
  /\ jobs = <<>>
  /\ \A i \in 1..Len(files) : files[i].status = "pending"


\* ------------------------------------- C19: the environment of a process

Scripts == {"scan_repo", "create_jobs", "validate_jobs"}

EnvNames == {"SUPABASE_URL", "SUPABASE_SERVICE_ROLE_KEY", "REPO_RAW_BASE_URL"}

\* os.environ.get(name): None when the variable is not set, or its value,
\* which may be the empty string.
EnvValues == {NO_STRING, <<>>, REPO_RAW_BASE_URL}

\* `not value`
falsy(value) == value = NO_STRING \/ value = <<>>

\* RequiredEnv as it would be if create_jobs.py did not test REPO_RAW_BASE_URL.
RequiredEnv_store_only(script) == {"SUPABASE_URL", "SUPABASE_SERVICE_ROLE_KEY"}

\* The variables each script tests at import, before anything else runs.
RequiredEnv(script) ==
  IF script = "create_jobs"
  THEN {"SUPABASE_URL", "SUPABASE_SERVICE_ROLE_KEY", "REPO_RAW_BASE_URL"}
  ELSE {"SUPABASE_URL", "SUPABASE_SERVICE_ROLE_KEY"}

\* One process of one script: start (module level not run yet), running
\* (the test passed, __main__ runs) or exited (raise SystemExit).
Processes ==
  {[call |-> "process", script |-> script, env |-> env, pc |-> "start"] :
     script \in Scripts, env \in [EnvNames -> EnvValues]}

\* The store the process finds: the files of an earlier scan, when the
\* repository had two files, and one job awaiting validation.
EarlierFiles == UpsertAll(<<>>, upsert_payload(scan_repo({AllPaths[1], AllPaths[2]})))

InitPreflight ==
  /\ files = EarlierFiles
  /\ jobs = Backlog(1, <<" ", "x", "\n">>, <<>>)
  /\ run = [r \in Runs |-> IdleRun]
  /\ val = IdleVal
  /\ probe \in Processes

\* `if not SUPABASE_URL or not ...: raise SystemExit(...)`
Preflight ==
  /\ probe.pc = "start"
  /\ probe' = [probe EXCEPT !.pc =
                 IF \E name \in RequiredEnv(probe.script) : falsy(probe.env[name])
                 THEN "exited" ELSE "running"]
  /\ UNCHANGED <<files, jobs, run, val>>

NextPreflight ==
  \/ Preflight
  \/ probe.pc = "running" /\ probe.script = "scan_repo" /\ Scan
  \/ probe.pc = "running" /\ probe.script = "create_jobs" /\ CreateJobsStep(1)
  \/ probe.pc = "running" /\ probe.script = "validate_jobs" /\ ValidateStep

SpecPreflight == InitPreflight /\ [][NextPreflight]_vars

\* C19: a process with a required variable unset or empty (the store's url
\* and key for every script, the raw base url for create_jobs) exits, and
\* until then and after it has sent no request: the store is as it was and
\* no run has left its first line.
C19_ExitBeforeAnyRequest ==
  LET env == probe.env
      missing == \/ env["SUPABASE_URL"] \in {NO_STRING, <<>>}
                 \/ env["SUPABASE_SERVICE_ROLE_KEY"] \in {NO_STRING, <<>>}
                 \/ /\ probe.script = "create_jobs"
                    /\ env["REPO_RAW_BASE_URL"] \in {NO_STRING, <<>>}
  IN  /\ missing => probe.pc \in {"start", "exited"}
      /\ probe.pc \in {"start", "exited"} =>
           /\ files = EarlierFiles
           /\ jobs = Backlog(1, <<" ", "x", "\n">>, <<>>)
           /\ run = [r \in Runs |-> IdleRun]
           /\ val = IdleVal

\* create_jobs.py has exited for an empty REPO_RAW_BASE_URL alone.
C19_Witness ==
  /\ probe.script = "create_jobs"
  /\ probe.pc = "exited"
  /\ probe.env["SUPABASE_URL"] = REPO_RAW_BASE_URL
  /\ probe.env["SUPABASE_SERVICE_ROLE_KEY"] = REPO_RAW_BASE_URL
  /\ probe.env["REPO_RAW_BASE_URL"] = <<>>


\* ------------------------------------------ C20: what a job keeps for good

\* The columns update_job may write.
ValidatorColumns == {"status", "last_error", "updated_at"}

\* C20: no step removes a job or changes the id, file_id, file_paths or
\* prompt of a job, and a step of the validator changes no column of a job
\* but status, last_error and updated_at.
C20_JobsKeepTheirBatch ==
  [][/\ Len(jobs') >= Len(jobs)
     /\ \A j \in 1..Len(jobs) :
          /\ jobs'[j].id = jobs[j].id
          /\ jobs'[j].file_id = jobs[j].file_id
          /\ jobs'[j].file_paths = jobs[j].file_paths
          /\ jobs'[j].prompt = jobs[j].prompt
          /\ val' # val =>
               \A column \in DOMAIN jobs[j] \ ValidatorColumns :
                 jobs'[j][column] = jobs[j][column]
    ]_vars

\* The validator has updated a job of two files, which still has its paths,
\* its prompt and its artifact.
C20_Witness ==
  /\ val.pc = "done"
  /\ \E j \in 1..Len(jobs) :
       /\ jobs[j].status = "converted_ok"
       /\ jobs[j].updated_at = "utcnow"
       /\ Len(jobs[j].file_paths) = 2
       /\ Len(ListedLines(jobs[j].prompt)) = 2
       /\ jobs[j].converted_code = <<" ", "x", "\n">>


\* ------------------------------------------------ C21: detect_kind on its own

\* The paths detect_kind is called with: a directory, a stem and an extension.
InitKind ==
  /\ files = <<>>
  /\ jobs = <<>>
  /\ run = [r \in Runs |-> IdleRun]
  /\ val = IdleVal
  /\ probe \in
       {[call |-> "detect_kind", dir |-> dir, stem |-> stem, ext |-> ext,
         returned |-> FALSE, result |-> NULL] :
          dir \in {<<>>, <<"s", "r", "c", "/">>, <<"T", "e", "s", "t", "s", "/">>,
                   <<"c", "o", "n", "f", "i", "g", "/">>},
          stem \in {<<"a">>, <<"T", "e", "s", "t">>, <<"c", "o", "n", "f">>,
                    <<"c", "o", "n", "f", "i", "g">>, <<"l", "a", "t", "e", "s", "t">>,
                    <<"m", "y", "_", "t", "e", "s", "t">>},
          ext \in {<<>>, <<".", "p", "y">>, <<".", "y", "m", "l">>,
                   <<".", "Y", "A", "M", "L">>, <<".", "g", "o">>}}

DetectKindCall ==
  /\ probe.call = "detect_kind"
  /\ ~probe.returned
  /\ probe' = [probe EXCEPT !.returned = TRUE,
                            !.result = detect_kind(probe.dir \o probe.stem \o probe.ext)]
  /\ UNCHANGED <<files, jobs, run, val>>

SpecKind == InitKind /\ [][DetectKindCall]_vars

\* C21: a path is test when it holds "test" in any case (in the directory
\* Tests/, in the stems Test, latest and my_test); otherwise config when it
\* holds "config" or ends with .yml or .yaml in any case; otherwise source.
C21_KindOfPath ==
  (probe.call = "detect_kind" /\ probe.returned) =>
    LET test == \/ probe.dir = <<"T", "e", "s", "t", "s", "/">>
                \/ probe.stem \in {<<"T", "e", "s", "t">>,
                                   <<"l", "a", "t", "e", "s", "t">>,
                                   <<"m", "y", "_", "t", "e", "s", "t">>}
        config == \/ probe.dir = <<"c", "o", "n", "f", "i", "g", "/">>
                  \/ probe.stem = <<"c", "o", "n", "f", "i", "g">>
                  \/ probe.ext \in {<<".", "y", "m", "l">>, <<".", "Y", "A", "M", "L">>}
    IN  probe.result = (IF test THEN "test" ELSE IF config THEN "config" ELSE "source")

\* config/my_test.yml is test and config at once, and is classified test.
C21_Witness ==
  /\ probe.call = "detect_kind"
  /\ probe.returned
  /\ probe.dir = <<"c", "o", "n", "f", "i", "g", "/">>
  /\ probe.stem = <<"m", "y", "_", "t", "e", "s", "t">>
  /\ probe.ext = <<".", "y", "m", "l">>
  /\ probe.result = "test"


\* -------------------------------------------- C22: detect_language on its own

\* Extensions in lower, upper and mixed case with the language the table of
\* the scanner gives them, and extensions the table does not have.
LanguageCases ==
  { <<<<".", "p", "y">>, "python">>,
    <<<<".", "P", "Y">>, "python">>,
    <<<<".", "P", "y">>, "python">>,
    <<<<".", "j", "s">>, "javascript">>,
    <<<<".", "J", "S">>, "javascript">>,
    <<<<".", "J", "s">>, "javascript">>,
    <<<<".", "j", "s", "x">>, "jsx">>,
    <<<<".", "J", "S", "X">>, "jsx">>,
    <<<<".", "J", "s", "x">>, "jsx">>,
    <<<<".", "t", "s">>, "typescript">>,
    <<<<".", "T", "S">>, "typescript">>,
    <<<<".", "T", "s">>, "typescript">>,
    <<<<".", "t", "s", "x">>, "tsx">>,
    <<<<".", "T", "S", "X">>, "tsx">>,
    <<<<".", "T", "s", "x">>, "tsx">>,
    <<<<".", "g", "o">>, "go">>,
    <<<<".", "G", "O">>, "go">>,
    <<<<".", "G", "o">>, "go">>,
    <<<<".", "j", "a", "v", "a">>, "java">>,
    <<<<".", "J", "A", "V", "A">>, "java">>,
    <<<<".", "J", "a", "v", "a">>, "java">>,
    <<<<".", "c", "s">>, "csharp">>,
    <<<<".", "C", "S">>, "csharp">>,
    <<<<".", "C", "s">>, "csharp">>,
    <<<<".", "p", "h", "p">>, "php">>,
    <<<<".", "P", "H", "P">>, "php">>,
    <<<<".", "P", "h", "p">>, "php">>,
    <<<<".", "r", "b">>, "ruby">>,
    <<<<".", "R", "B">>, "ruby">>,
    <<<<".", "R", "b">>, "ruby">>,
    <<<<".", "r", "s">>, "rust">>,
    <<<<".", "R", "S">>, "rust">>,
    <<<<".", "R", "s">>, "rust">>,
    <<<<".", "c", "p", "p">>, "cpp">>,
    <<<<".", "C", "P", "P">>, "cpp">>,
    <<<<".", "C", "p", "p">>, "cpp">>,
    <<<<".", "c">>, "c">>,
    <<<<".", "C">>, "c">>,
    <<<<".", "h">>, "c-header">>,
    <<<<".", "H">>, "c-header">>,
    <<<<".", "h", "t", "m", "l">>, "html">>,
    <<<<".", "H", "T", "M", "L">>, "html">>,
    <<<<".", "H", "t", "m", "l">>, "html">>,
    <<<<".", "c", "s", "s">>, "css">>,
    <<<<".", "C", "S", "S">>, "css">>,
    <<<<".", "C", "s", "s">>, "css">>,
    <<<<".", "s", "q", "l">>, "sql">>,
    <<<<".", "S", "Q", "L">>, "sql">>,
    <<<<".", "S", "q", "l">>, "sql">>,
    <<<<".", "j", "s", "o", "n">>, "json">>,
    <<<<".", "J", "S", "O", "N">>, "json">>,
    <<<<".", "J", "s", "o", "n">>, "json">>,
    <<<<".", "y", "m", "l">>, "yaml">>,
    <<<<".", "Y", "M", "L">>, "yaml">>,
    <<<<".", "Y", "m", "l">>, "yaml">>,
    <<<<".", "y", "a", "m", "l">>, "yaml">>,
    <<<<".", "Y", "A", "M", "L">>, "yaml">>,
    <<<<".", "Y", "a", "m", "l">>, "yaml">>,
    <<<<".", "t", "e", "x">>, "latex">>,
    <<<<".", "T", "E", "X">>, "latex">>,
    <<<<".", "T", "e", "x">>, "latex">>,
    <<<<".", "p", "y", "c">>, "unknown">>,
    <<<<".", "p">>, "unknown">>,
    <<<<".", "t", "x", "t">>, "unknown">>,
    <<<<".", "g", "z">>, "unknown">>,
    <<<<>>, "unknown">>,
    <<<<".">>, "unknown">>,
    <<<<".", "j", "s", "o", "n", "l">>, "unknown">>,
    <<<<".", "y", "a", "m", "l", "l">>, "unknown">>,
    <<<<".", "h", "t", "m">>, "unknown">>,
    <<<<".", "c", "c">>, "unknown">> }

\* What stands before the extension: nothing makes the name a dot file, which
\* has no extension.
InitLanguage ==
  /\ files = <<>>
  /\ jobs = <<>>
  /\ run = [r \in Runs |-> IdleRun]
  /\ val = IdleVal
  /\ probe \in
       {[call |-> "detect_language", stem |-> stem, ext |-> case[1], language |-> case[2],
         returned |-> FALSE, result |-> NULL] :
          stem \in {<<>>, <<"a">>, <<"a", ".", "b">>, <<".", "h">>},
          case \in LanguageCases}

DetectLanguageCall ==
  /\ probe.call = "detect_language"
  /\ ~probe.returned
  /\ probe' = [probe EXCEPT !.returned = TRUE,
                            !.result = detect_language(probe.stem \o probe.ext)]
  /\ UNCHANGED <<files, jobs, run, val>>

SpecLanguage == InitLanguage /\ [][DetectLanguageCall]_vars

\* C22: a file name made of a stem and an extension gets the language of the
\* extension, whatever its case, and "unknown" when the table does not have
\* the extension or the name has none.
C22_LanguageOfExtension ==
  (probe.call = "detect_language" /\ probe.returned) =>
    probe.result = (IF probe.stem = <<>> THEN "unknown" ELSE probe.language)

\* a.b.TSX is tsx, not typescript.
C22_Witness ==
  /\ probe.call = "detect_language"
  /\ probe.returned
  /\ probe.stem = <<"a", ".", "b">>
  /\ probe.ext = <<".", "T", "S", "X">>
  /\ probe.result = "tsx"


\* ------------------------------------------- C23: the prompt of a batch

RunCompleted ==
  LET batches == run[1].batches
      fetched == Flatten(batches)
      n == Len(fetched)
      k == Len(batches)
      made == SubSeq(jobs, Len(jobs) - k + 1, Len(jobs))
  IN  /\ k = (n + BATCH_SIZE - 1) \div BATCH_SIZE
      /\ Len(jobs) >= k
      /\ \A b \in 1..k :
           made[b].file_paths = [i \in 1..Len(batches[b]) |-> batches[b][i].path]
      /\ \A i \in 1..n :
           /\ \E f \in 1..Len(files) :
                files[f].id = fetched[i].id /\ files[f].status = "in_job"
           /\ Cardinality({b \in 1..k :
                             \E m \in 1..Len(made[b].file_paths) :
                               made[b].file_paths[m] = fetched[i].path}) = 1

\* C24: a run that ends without a failure ends in RunCompleted; a job is
\* added by the POST of a batch and by no other step; a run that fetched
\* nothing ends at once with the store as it was.
C24_RunEnqueuesAndMarksAll ==
  [][/\ (run[1].pc # "done" /\ run'[1].pc = "done") => RunCompleted'
     /\ Len(jobs') = Len(jobs) + (IF run[1].pc = "post" /\ run'[1].pc = "patch" THEN 1 ELSE 0)
     /\ (run[1].pc = "idle" /\ run'[1].pc = "done") =>
          /\ run'[1].batches = <<>>
          /\ jobs' = jobs
          /\ files' = files
    ]_vars

\* A run over three files has ended: two jobs, three files in_job.
C24_Witness ==
  /\ run[1].pc = "done"
  /\ Len(Flatten(run[1].batches)) = 3
  /\ Len(jobs) = 2
  /\ Len(jobs[1].file_paths) = BATCH_SIZE
  /\ Len(jobs[2].file_paths) = 1
  /\ \A f \in 1..Len(files) : files[f].status = "in_job"


\* ----------------------------------------------- C25: the shape of a job

\* C25: a job has between 1 and BATCH_SIZE paths, no path twice, and its
\* file_id is the id of the files_manifest row of its first path.
C25_JobShape ==
  \A j \in 1..Len(jobs) :
    LET paths == jobs[j].file_paths
    IN  /\ Len(paths) >= 1
        /\ Len(paths) <= BATCH_SIZE
        /\ \A a, b \in 1..Len(paths) : a # b => paths[a] # paths[b]
        /\ \E f \in 1..Len(files) :
             files[f].path = paths[1] /\ files[f].id = jobs[j].file_id

\* A full first batch and a second job that starts at the next file.
C25_Witness ==
  /\ Len(jobs) >= 2
  /\ Len(jobs[1].file_paths) = BATCH_SIZE
  /\ jobs[1].file_id = 1
  /\ jobs[2].file_id = BATCH_SIZE + 1
  /\ files[BATCH_SIZE + 1].path = jobs[2].file_paths[1]


\* ------------------------------------- the inventory manager (sample14.py)

MaxStock == 2
MaxLines == 3

\* The products table the SQL of InventoryManager reads and updates: the
\* stock_level and the price (in cents) of each product_id. B is priced below
\* zero, X is a product_id with no row.
Products == {"A", "B"}
ProductPrice == [p \in Products |-> IF p = "A" THEN 19999 ELSE 0 - 2000]

RECURSIVE SeqsUpTo(_, _)
SeqsUpTo(S, n) ==
  IF n = 0 THEN {<<>>}
  ELSE LET shorter == SeqsUpTo(S, n - 1)
       IN  shorter \cup {Append(q, x) : q \in {t \in shorter : Len(t) = n - 1}, x \in S}

\* A database connection: _connected and the stock_level column.
Databases == [connected : BOOLEAN, stock : [Products -> 0..MaxStock]]

\* execute_query of "SELECT product_id, name, price, stock_level FROM products
\* WHERE product_id = %s": no row when not connected (None) or for an unknown
\* id ([]); the callers test "not result", which holds for both.
select_product(db, product_id) ==
  IF ~db.connected \/ product_id \notin DOMAIN db.stock THEN <<>>
  ELSE <<[product_id |-> product_id, price |-> ProductPrice[product_id],
          stock_level |-> db.stock[product_id]]>>

check_stock(db, product_id, quantity_requested) ==
  LET result == select_product(db, product_id)
  IN  IF result = <<>>
      THEN [available |-> FALSE, found |-> FALSE, stock_level |-> 0, unit_price |-> 0]
      ELSE [available |-> result[1].stock_level >= quantity_requested,
            found |-> TRUE,
            stock_level |-> result[1].stock_level,
            unit_price |-> result[1].price]

\* execute_commit of "UPDATE products SET stock_level = stock_level - %s
\* WHERE product_id = %s AND stock_level >= %s": the database after it and
\* the number of rows affected.
update_reserve(db, quantity, product_id) ==
  IF /\ db.connected
     /\ product_id \in DOMAIN db.stock
     /\ db.stock[product_id] >= quantity
  THEN [db |-> [db EXCEPT !.stock[product_id] = @ - quantity], rows |-> 1]
  ELSE [db |-> db, rows |-> 0]

\* execute_commit of "UPDATE products SET stock_level = stock_level + %s
\* WHERE product_id = %s".
update_restore(db, quantity, product_id) ==
  IF db.connected /\ product_id \in DOMAIN db.stock
  THEN [db EXCEPT !.stock[product_id] = @ + quantity]
  ELSE db

\* The loop of rollback_stock_reservation from item i on.
RECURSIVE rollback_from(_, _, _, _)
rollback_from(db, items_list, failed_at_product_id, i) ==
  IF i > Len(items_list) THEN db
  ELSE IF items_list[i].product_id = failed_at_product_id THEN db
  ELSE rollback_from(update_restore(db, items_list[i].quantity, items_list[i].product_id),
                     items_list, failed_at_product_id, i + 1)

rollback_stock_reservation(db, items_list, failed_at_product_id) ==
  rollback_from(db, items_list, failed_at_product_id, 1)

\* The reservation phase of reserve_stock from item i on.
RECURSIVE reserve_from(_, _, _)
reserve_from(db, items_list, i) ==
  IF i > Len(items_list) THEN [db |-> db, result |-> TRUE]
  ELSE LET updated == update_reserve(db, items_list[i].quantity, items_list[i].product_id)
       IN  IF updated.rows = 0
           THEN [db |-> rollback_stock_reservation(db, items_list, items_list[i].product_id),
                 result |-> FALSE]
           ELSE reserve_from(updated.db, items_list, i + 1)

reserve_stock(db, items_list) ==
  IF \E i \in 1..Len(items_list) :
       ~check_stock(db, items_list[i].product_id, items_list[i].quantity).available
  THEN [db |-> db, result |-> FALSE]
  ELSE reserve_from(db, items_list, 1)

\* The calls of reserve_stock: items_list holds up to MaxLines order lines
\* {'product_id': ..., 'quantity': ...}.
InitReserve ==
  /\ files = <<>>
  /\ jobs = <<>>
  /\ run = [r \in Runs |-> IdleRun]
  /\ val = IdleVal
  /\ probe \in
       [call : {"reserve_stock"},
        items_list : SeqsUpTo([product_id : Products \cup {"X"}, quantity : 1..MaxStock],
                              MaxLines),
        db : Databases, before : {NULL}, returned : {FALSE}, result : {NULL}]

ReserveStockCall ==
  /\ probe.call = "reserve_stock"
  /\ ~probe.returned
  /\ LET done == reserve_stock(probe.db, probe.items_list)
     IN  probe' = [probe EXCEPT !.returned = TRUE, !.before = probe.db,
                                !.db = done.db, !.result = done.result]
  /\ UNCHANGED <<files, jobs, run, val>>

SpecReserve == InitReserve /\ [][ReserveStockCall]_vars

\* C26: when reserve_stock has returned False, the stock level of every
\* product is what it was before the call.
C26_FailedReserveRestoresStock ==
  (probe.call = "reserve_stock" /\ probe.returned /\ probe.result = FALSE) =>
    probe.db.stock = probe.before.stock


\* ------------------------------------- the order processor (sample14.py)

SHIPPING_COST == 999
FREE_SHIPPING_OVER == 7500

\* The users and payment_methods rows the lookups can find: u1 has a
\* default_payment_id, u2 has none, u0 and pay_0 have no row.
\* The rows a lookup returns: <<>> stands for None.
get_user_details(db, user_id) ==
  IF ~db.connected \/ user_id = "u0" THEN <<>>
  ELSE <<[user_id |-> user_id,
          default_payment_id |-> IF user_id = "u1" THEN "pay_1" ELSE NULL]>>

get_payment_details(db, payment_id) ==
  IF ~db.connected \/ payment_id # "pay_1" THEN <<>>
  ELSE <<[payment_id |-> payment_id, token |-> "token_mock_4242"]>>

\* Step 1 of process_new_order: the payment token, or NULL when a lookup
\* raises ValueError.
payment_token_of(db, user_id, payment_id) ==
  LET user_details == get_user_details(db, user_id)
  IN  IF user_details = <<>> THEN NULL
      ELSE LET pid == IF payment_id = NULL THEN user_details[1].default_payment_id
                      ELSE payment_id
           IN  IF pid = NULL THEN NULL
               ELSE LET payment_details == get_payment_details(db, pid)
                    IN  IF payment_details = <<>> THEN NULL
                        ELSE payment_details[1].token

\* Step 2: every item passes check_stock.
all_in_stock(db, items) ==
  \A i \in 1..Len(items) : check_stock(db, items[i].product_id, items[i].quantity).available

RECURSIVE subtotal_of(_, _)
subtotal_of(db, items) ==
  IF items = <<>> THEN 0
  ELSE check_stock(db, items[1].product_id, items[1].quantity).unit_price * items[1].quantity
       + subtotal_of(db, Tail(items))

\* calculate_order_totals without a promotion (promo_code is None), in cents.
total_amount(db, items) ==
  LET subtotal == subtotal_of(db, items)
      shipping_cost == IF subtotal > FREE_SHIPPING_OVER THEN 0 ELSE SHIPPING_COST
  IN  subtotal + shipping_cost

\* MockPaymentGateway.charge: whether the charge succeeds.
charge(amount, payment_token) ==
  /\ amount > 0
  /\ payment_token # "token_fail_insufficient_funds"
  /\ payment_token # "token_fail_card_declined"

\* create_order_record, given the insert that affects no row, if any.
create_order_record(items, failing_insert) ==
  /\ failing_insert # "orders"
  /\ (items = <<>> \/ failing_insert # "order_items")

\* The except branch's test as it would be if it did not look at
\* transaction_id.
refund_due_always(transaction_id) == TRUE

\* 'transaction_id' in locals() and transaction_id
refund_due(transaction_id) == transaction_id # NULL

\* The transaction_id of a successful charge, f"txn_{uuid4()}".
TXN_ID == "txn_1"

\* The calls of process_new_order: the arguments, the database, and the
\* insert of create_order_record that affects no row, if any.
InitOrder ==
  /\ files = <<>>
  /\ jobs = <<>>
  /\ run = [r \in Runs |-> IdleRun]
  /\ val = IdleVal
  /\ probe \in
       [call : {"process_new_order"}, pc : {"called"}, db : Databases,
        user_id : {"u1", "u2", "u0"}, payment_id : {NULL, "pay_1", "pay_0"},
        items : {<<>>,
                 <<[product_id |-> "A", quantity |-> 1]>>,
                 <<[product_id |-> "A", quantity |-> MaxStock]>>,
                 <<[product_id |-> "B", quantity |-> 1]>>,
                 <<[product_id |-> "X", quantity |-> 1]>>,
                 <<[product_id |-> "A", quantity |-> 1],
                   [product_id |-> "A", quantity |-> MaxStock]>>,
                 <<[product_id |-> "A", quantity |-> 1],
                   [product_id |-> "B", quantity |-> 1]>>},
        failing_insert : {"none", "orders", "order_items"}, payment_token : {NULL},
        transaction_id : {NULL}, log : {<<>>}, returned : {FALSE}, result : {NULL}]

\* The log holds the events of the call: the transaction calls on the
\* connection and the requests to the payment gateway.

\* begin_transaction and step 1.
OrderLookup ==
  /\ probe.call = "process_new_order" /\ probe.pc = "called"
  /\ LET token == payment_token_of(probe.db, probe.user_id, probe.payment_id)
     IN  probe' = [probe EXCEPT !.log = Append(@, [ev |-> "begin", txn |-> NULL]),
                                !.payment_token = token,
                                !.pc = IF token = NULL THEN "except" ELSE "stock"]
  /\ UNCHANGED <<files, jobs, run, val>>

\* Step 2.
OrderCheckStock ==
  /\ probe.call = "process_new_order" /\ probe.pc = "stock"
  /\ probe' = [probe EXCEPT !.pc = IF all_in_stock(probe.db, probe.items)
                                   THEN "charge" ELSE "except"]
  /\ UNCHANGED <<files, jobs, run, val>>

\* Steps 3 and 4.
OrderCharge ==
  /\ probe.call = "process_new_order" /\ probe.pc = "charge"
  /\ IF charge(total_amount(probe.db, probe.items), probe.payment_token)
     THEN probe' = [probe EXCEPT !.log = Append(@, [ev |-> "charge", txn |-> TXN_ID]),
                                 !.transaction_id = TXN_ID,
                                 !.pc = "reserve"]
     ELSE probe' = [probe EXCEPT !.log = Append(@, [ev |-> "charge_failed", txn |-> NULL]),
                                 !.pc = "except"]
  /\ UNCHANGED <<files, jobs, run, val>>

\* Step 5.
OrderReserve ==
  /\ probe.call = "process_new_order" /\ probe.pc = "reserve"
  /\ LET done == reserve_stock(probe.db, probe.items)
     IN  probe' = [probe EXCEPT !.db = done.db,
                                !.pc = IF done.result THEN "record" ELSE "except"]
  /\ UNCHANGED <<files, jobs, run, val>>

\* Steps 6, 7 and 8: the order record, commit_transaction, the confirmation
\* e-mail and the success result.
OrderRecordAndCommit ==
  /\ probe.call = "process_new_order" /\ probe.pc = "record"
  /\ IF create_order_record(probe.items, probe.failing_insert)
     THEN probe' = [probe EXCEPT !.log = Append(@, [ev |-> "commit", txn |-> NULL]),
                                 !.pc = "done", !.returned = TRUE, !.result = TRUE]
     ELSE probe' = [probe EXCEPT !.pc = "except"]
  /\ UNCHANGED <<files, jobs, run, val>>

\* The except branch: rollback_transaction, the refund when a charge was
\* made, and the failure result.
OrderExcept ==
  /\ probe.call = "process_new_order" /\ probe.pc = "except"
  /\ LET rolled == Append(probe.log, [ev |-> "rollback", txn |-> NULL])
     IN  probe' = [probe EXCEPT
                     !.log = IF refund_due(probe.transaction_id)
                             THEN Append(rolled, [ev |-> "refund", txn |-> probe.transaction_id])
                             ELSE rolled,
                     !.pc = "done", !.returned = TRUE, !.result = FALSE]
  /\ UNCHANGED <<files, jobs, run, val>>

NextOrder ==
  \/ OrderLookup
  \/ OrderCheckStock
  \/ OrderCharge
  \/ OrderReserve
  \/ OrderRecordAndCommit
  \/ OrderExcept

\* The call is one thread of straight-line code: it runs until it returns.
SpecOrder == InitOrder /\ [][NextOrder]_vars /\ WF_vars(NextOrder)

Count(log, ev, txn) == Cardinality({i \in 1..Len(log) : log[i] = [ev |-> ev, txn |-> txn]})

Has(log, ev) == \E i \in 1..Len(log) : log[i].ev = ev

Charged == probe.call = "process_new_order" /\ Has(probe.log, "charge")

Committed ==
  /\ probe.returned /\ probe.result = TRUE
  /\ Count(probe.log, "commit", NULL) = 1
  /\ ~Has(probe.log, "rollback") /\ ~Has(probe.log, "refund")

Refunded ==
  /\ probe.returned /\ probe.result = FALSE
  /\ Count(probe.log, "rollback", NULL) = 1
  /\ Count(probe.log, "refund", probe.transaction_id) = 1
  /\ \A i \in 1..Len(probe.log) :
       probe.log[i].ev = "refund" => probe.log[i].txn = probe.transaction_id
  /\ ~Has(probe.log, "commit")

\* C27: a successful charge leads to commit and a success result, or to
\* rollback and exactly one refund of its transaction id; no refund is
\* requested after a commit or without a successful charge.
C27_ChargeIsSettled ==
  /\ [](probe.call = "process_new_order" =>
          /\ Has(probe.log, "refund") => (Charged /\ ~Has(probe.log, "commit"))
          /\ Has(probe.log, "commit") => Charged
          /\ (probe.returned /\ Charged) => (Committed \/ Refunded)
          /\ (probe.returned /\ probe.result = TRUE) => Committed)
  /\ (Charged ~> (Committed \/ Refunded))

\* A charge was made, the reservation failed, and the charge was refunded.
C27_Witness == Charged /\ Refunded


\* ------------------------------------- the order service (sample4.py)

MaxCalls == 2

VALID_STATUSES == {"PENDING", "PAID", "SHIPPED", "DELIVERED", "CANCELLED", "REFUNDED"}

\* The users table: the role of each user_id that has a row.
UserRoles == [u \in {"admin", "support", "customer"} |->
                IF u = "admin" THEN "ADMIN"
                ELSE IF u = "support" THEN "SUPPORT" ELSE "CUSTOMER"]

\* The orders with a row, and the order_items rows of each; order 3 has no row.
OrderIds == {1, 2}
OrderItems ==
  [o \in OrderIds |->
     IF o = 1 THEN <<[product_id |-> "P", quantity |-> 1], [product_id |-> "Q", quantity |-> 2]>>
     ELSE <<[product_id |-> "P", quantity |-> 2]>>]
InitialInventory == [p \in {"P", "Q"} |-> 0]

\* fails_at is the statement of a call at which the database raises
\* sqlite3.Error: 0 for none, 1 the status query, 2 UPDATE orders, 3 INSERT
\* INTO order_status_history, 4 the order_items query, 4 + i the i-th UPDATE
\* inventory.

\* The loop of restock_cancelled_order_items from item i on, inside the
\* caller's transaction.
RECURSIVE restock_from(_, _, _, _)
restock_from(db, items, i, fails_at) ==
  IF i > Len(items) THEN [db |-> db, error |-> FALSE]
  ELSE IF fails_at = 4 + i THEN [db |-> db, error |-> TRUE]
  ELSE restock_from(
         [db EXCEPT !.inventory[items[i].product_id] = @ + items[i].quantity],
         items, i + 1, fails_at)

restock_cancelled_order_items(db, order_id, fails_at) ==
  IF fails_at = 4 THEN [db |-> db, error |-> TRUE]
  ELSE IF OrderItems[order_id] = <<>> THEN [db |-> db, error |-> FALSE]
  ELSE restock_from(db, OrderItems[order_id], 1, fails_at)

\* The body of "with conn:" in update_order_status.
status_transaction(db, order_id, new_status, admin_user_id, fails_at) ==
  IF fails_at = 2 THEN [db |-> db, error |-> TRUE]
  ELSE LET updated == [db EXCEPT !.status[order_id] = new_status]
       IN  IF fails_at = 3 THEN [db |-> updated, error |-> TRUE]
           ELSE LET logged == [updated EXCEPT !.history =
                                 Append(@, [order_id |-> order_id, status |-> new_status,
                                            changed_by_user_id |-> admin_user_id])]
                IN  IF new_status = "CANCELLED" \/ new_status = "REFUNDED"
                    THEN restock_cancelled_order_items(logged, order_id, fails_at)
                    ELSE [db |-> logged, error |-> FALSE]

\* The state-transition test as it would be if only CANCELLED were final.
is_final_cancelled_only(current_status) == current_status = "CANCELLED"

\* current_status == "CANCELLED" or current_status == "REFUNDED"
is_final(current_status) ==
  current_status = "CANCELLED" \/ current_status = "REFUNDED"

\* update_order_status: the database after the call and what the call
\* returned or raised. A transaction that raises is rolled back by "with
\* conn", so the database is the one before the call.
update_order_status(db, order_id, new_status, admin_user_id, fails_at) ==
  IF new_status \notin VALID_STATUSES
  THEN [db |-> db, outcome |-> "ValidationError"]
  ELSE IF /\ admin_user_id # NULL
          /\ \/ admin_user_id \notin DOMAIN UserRoles
             \/ UserRoles[admin_user_id] \notin {"ADMIN", "SUPPORT"}
  THEN [db |-> db, outcome |-> "AuthenticationError"]
  ELSE IF fails_at = 1
  THEN [db |-> db, outcome |-> "DatabaseError"]
  ELSE IF order_id \notin DOMAIN db.status
  THEN [db |-> db, outcome |-> "OrderProcessingError"]
  ELSE IF db.status[order_id] = new_status
  THEN [db |-> db, outcome |-> "True"]
  ELSE IF is_final(db.status[order_id])
  THEN [db |-> db, outcome |-> "OrderProcessingError"]
  ELSE LET tx == status_transaction(db, order_id, new_status, admin_user_id, fails_at)
       IN  IF tx.error THEN [db |-> db, outcome |-> "OrderProcessingError"]
           ELSE [db |-> tx.db, outcome |-> "True"]

InitStatus ==
  /\ files = <<>>
  /\ jobs = <<>>
  /\ run = [r \in Runs |-> IdleRun]
  /\ val = IdleVal
  /\ probe \in
       [call : {"update_order_status"},
        db : [status : [OrderIds -> {"PENDING", "SHIPPED", "REFUNDED"}], history : {<<>>},
              inventory : {InitialInventory}],
        calls : {0}, order_id : {NULL}, new_status : {NULL}, outcome : {NULL}]

UpdateOrderStatusCall ==
  /\ probe.call = "update_order_status"
  /\ probe.calls < MaxCalls
  /\ \E order_id \in OrderIds \cup {3},
        new_status \in VALID_STATUSES \cup {"LOST"},
        admin_user_id \in {NULL, "support", "customer", "nobody"},
        fails_at \in 0..6 :
       LET done == update_order_status(probe.db, order_id, new_status, admin_user_id, fails_at)
       IN  probe' = [probe EXCEPT !.db = done.db, !.calls = @ + 1,
                                  !.order_id = order_id, !.new_status = new_status,
                                  !.outcome = done.outcome]
  /\ UNCHANGED <<files, jobs, run, val>>

SpecStatus == InitStatus /\ [][UpdateOrderStatusCall]_vars

\* The number of times the history shows the order becoming CANCELLED or
\* REFUNDED, which is when its items are restocked.
Restocks(db, o) ==
  Cardinality({i \in 1..Len(db.history) :
                 db.history[i].order_id = o /\ is_final(db.history[i].status)})

\* The quantity of a product in the items of an order.
RECURSIVE QuantityIn(_, _)
QuantityIn(items, p) ==
  IF items = <<>> THEN 0
  ELSE (IF items[1].product_id = p THEN items[1].quantity ELSE 0) + QuantityIn(Tail(items), p)

RECURSIVE RestockedQuantity(_, _, _)
RestockedQuantity(db, orders, p) ==
  IF orders = {} THEN 0
  ELSE LET o == CHOOSE x \in orders : TRUE
       IN  Restocks(db, o) * QuantityIn(OrderItems[o], p) + RestockedQuantity(db, orders \ {o}, p)

\* C28: a CANCELLED or REFUNDED order keeps its status, and a call that asks
\* another status for it raises and changes nothing; the items of an order
\* are added back to the inventory at most once.
C28_FinalStatusAndSingleRestock ==
  [][probe.call = "update_order_status" =>
       /\ \A o \in OrderIds :
            (probe.db.status[o] = "CANCELLED" \/ probe.db.status[o] = "REFUNDED") =>
              /\ probe'.db.status[o] = probe.db.status[o]
              /\ (probe'.order_id = o /\ probe'.new_status # probe.db.status[o]) =>
                   /\ probe'.outcome # "True"
                   /\ probe'.db = probe.db
       /\ \A o \in OrderIds : Restocks(probe'.db, o) <= 1
       /\ \A p \in DOMAIN InitialInventory :
            probe'.db.inventory[p] = InitialInventory[p] + RestockedQuantity(probe'.db, OrderIds, p)
    ]_vars

\* Order 1 was cancelled and restocked, and a later call asked REFUNDED for it.
C28_Witness ==
  /\ probe.call = "update_order_status"
  /\ Restocks(probe.db, 1) = 1
  /\ probe.db.status[1] = "CANCELLED"
  /\ probe.db.inventory["Q"] = 2
  /\ probe.order_id = 1 /\ probe.new_status = "REFUNDED"
  /\ probe.outcome = "OrderProcessingError"


\* ------------------------------------- the production planner (sample15.py)

MaxBom == 2

\* Item SKUs: two raw materials and a finished good.
Materials == {"MAT-001", "MAT-002"}
FinishedGood == "PROD-001"

\* GetStockLevelAsync: the record, or a record with quantity 0 when the SKU
\* has none.
GetStockLevel(inventory, itemSku) ==
  IF itemSku \notin DOMAIN inventory THEN 0 ELSE inventory[itemSku]

\* AdjustStockAsync: the inventory after the call and what it returned.
AdjustStock(inventory, itemSku, quantityChange) ==
  LET new_quantity == GetStockLevel(inventory, itemSku) + quantityChange
  IN  IF new_quantity < 0 THEN [inventory |-> inventory, result |-> FALSE]
      ELSE IF itemSku \notin DOMAIN inventory THEN [inventory |-> inventory, result |-> FALSE]
      ELSE [inventory |-> [inventory EXCEPT ![itemSku] = new_quantity], result |-> TRUE]

\* CheckMaterialAvailabilityAsync: whether some required material is short.
has_shortfall(inventory, bom, quantityToProduce) ==
  \E i \in 1..Len(bom) :
    GetStockLevel(inventory, bom[i].MaterialId) < bom[i].Quantity * quantityToProduce

\* CreateWorkOrderAsync: the work-order table with the new Pending order.
CreateWorkOrder(work_orders, productId, quantity) ==
  Append(work_orders, [WorkOrderId |-> Len(work_orders) + 5000, ProductId |-> productId,
                       Quantity |-> quantity, Status |-> "Pending"])

\* The consumption loop of CompleteWorkOrderAsync from BOM item i on.
RECURSIVE consume_from(_, _, _, _)
consume_from(inventory, bom, quantity, i) ==
  IF i > Len(bom) THEN [inventory |-> inventory, result |-> TRUE]
  ELSE LET adjusted == AdjustStock(inventory, bom[i].MaterialId, 0 - bom[i].Quantity * quantity)
       IN  IF ~adjusted.result THEN adjusted
           ELSE consume_from(adjusted.inventory, bom, quantity, i + 1)

\* CompleteWorkOrderAsync for the last work order of the table.
CompleteWorkOrder(db, bom_table) ==
  LET n == Len(db.work_orders)
      work_order == db.work_orders[n]
      bom == bom_table[work_order.ProductId]
      consumed == consume_from(db.inventory, bom, work_order.Quantity, 1)
      created == AdjustStock(consumed.inventory, work_order.ProductId, work_order.Quantity)
  IN  IF work_order.ProductId \notin DOMAIN bom_table THEN [db |-> db, result |-> FALSE]
      ELSE IF ~consumed.result
      THEN [db |-> [db EXCEPT !.inventory = consumed.inventory], result |-> FALSE]
      ELSE IF ~created.result
      THEN [db |-> [db EXCEPT !.inventory = created.inventory], result |-> FALSE]
      ELSE [db |-> [db EXCEPT !.inventory = created.inventory,
                              !.work_orders[n].Status = "Completed"],
            result |-> TRUE]

\* RollbackTransaction: the transaction flag is cleared, the tables stay.
RollbackTransaction(db) == [db EXCEPT !.is_transaction_active = FALSE]

CommitTransaction(db) == [db EXCEPT !.is_transaction_active = FALSE]

\* ScheduleProductionRunAsync. The procurement calls of the shortfall branch
\* write the purchase-order table only, which this state does not hold.
ScheduleProductionRun(db, bom_table, productId, quantity) ==
  LET begun == [db EXCEPT !.is_transaction_active = TRUE]
  IN  IF \/ productId \notin DOMAIN bom_table
         \/ has_shortfall(begun.inventory, bom_table[productId], quantity)
      THEN [db |-> RollbackTransaction(begun), result |-> FALSE]
      ELSE LET ordered == [begun EXCEPT !.work_orders =
                             CreateWorkOrder(@, productId, quantity)]
               completed == CompleteWorkOrder(ordered, bom_table)
           IN  IF completed.result
               THEN [db |-> CommitTransaction(completed.db), result |-> TRUE]
               ELSE [db |-> RollbackTransaction(completed.db), result |-> FALSE]

\* The calls of ScheduleProductionRunAsync. _mock_inventory_table holds the
\* QuantityOnHand of each SKU that has a record; _mock_bom_table holds the
\* RequiredMaterials of each product that has a bill of materials.
InitSchedule ==
  /\ files = <<>>
  /\ jobs = <<>>
  /\ run = [r \in Runs |-> IdleRun]
  /\ val = IdleVal
  /\ probe \in
       [call : {"ScheduleProductionRunAsync"},
        db : [inventory : UNION {[D -> 0..MaxStock] :
                                   D \in SUBSET (Materials \cup {FinishedGood})},
              work_orders : {<<>>}, is_transaction_active : {FALSE}],
        bom_table : UNION {[D -> SeqsUpTo([MaterialId : Materials, Quantity : 1..MaxStock],
                                          MaxBom)] :
                             D \in SUBSET {FinishedGood}},
        quantity : 1..MaxStock,
        before : {NULL}, returned : {FALSE}, result : {NULL}]

ScheduleProductionRunCall ==
  /\ probe.call = "ScheduleProductionRunAsync"
  /\ ~probe.returned
  /\ LET done == ScheduleProductionRun(probe.db, probe.bom_table, FinishedGood, probe.quantity)
     IN  probe' = [probe EXCEPT !.returned = TRUE, !.before = probe.db,
                                !.db = done.db, !.result = done.result]
  /\ UNCHANGED <<files, jobs, run, val>>

SpecSchedule == InitSchedule /\ [][ScheduleProductionRunCall]_vars

\* C29: when ScheduleProductionRunAsync has returned False, every
\* QuantityOnHand and the work-order table are what they were before the call.
C29_FailedRunRestoresStock ==
  (probe.call = "ScheduleProductionRunAsync" /\ probe.returned /\ probe.result = FALSE) =>
    /\ probe.db.inventory = probe.before.inventory
    /\ probe.db.work_orders = probe.before.work_orders


\* ------------------------------------- the procurement service (sample15.py)

MaxTasks == 3

\* The SKUs a low-stock event or a direct call can name: two raw materials,
\* a material id with no RawMaterials row, and a finished good.
TaskSkus == Materials \cup {"MAT-009", FinishedGood}

\* The materials some supplier prefers (Suppliers.PreferredMaterialId).
SuppliedMaterials == {"MAT-001"}

\* itemSku.startswith("MAT-"), on the characters of the SKU.
is_material_sku(itemSku) ==
  LET chars == IF itemSku = "MAT-001" THEN <<"M", "A", "T", "-", "0", "0", "1">>
               ELSE IF itemSku = "MAT-002" THEN <<"M", "A", "T", "-", "0", "0", "2">>
               ELSE IF itemSku = "MAT-009" THEN <<"M", "A", "T", "-", "0", "0", "9">>
               ELSE <<"P", "R", "O", "D", "-", "0", "0", "1">>
  IN  startswith(chars, <<"M", "A", "T", "-">>)

\* The guard of CreateAutoPurchaseOrderAsync as it would be if it let every
\* call through.
already_handling_never(pendingOrders, materialId) == FALSE

\* materialId in self._pendingOrders
already_handling(pendingOrders, materialId) == materialId \in pendingOrders

\* The await points of CreateAutoPurchaseOrderAsync after the guard: the
\* RawMaterials query, the Suppliers query and the INSERT.
InFlight == {"material", "supplier", "insert"}

InitProcure ==
  /\ files = <<>>
  /\ jobs = <<>>
  /\ run = [r \in Runs |-> IdleRun]
  /\ val = IdleVal
  /\ probe \in
       [call : {"procurement"}, tasks : {<<>>}, pendingOrders : {{}},
        is_transaction_active : BOOLEAN, purchase_orders : {<<>>}]

\* _FireOnStockLow creates a handler task; ScheduleProductionRunAsync calls
\* CreateAutoPurchaseOrderAsync directly. The coroutine has not run yet.
CreateTask ==
  /\ probe.call = "procurement"
  /\ Len(probe.tasks) < MaxTasks
  /\ \E kind \in {"handler", "direct"}, sku \in TaskSkus :
       probe' = [probe EXCEPT !.tasks =
                   Append(@, [kind |-> kind, sku |-> sku, pc |-> "new", result |-> NULL])]
  /\ UNCHANGED <<files, jobs, run, val>>

\* A task runs from its start to its first await: the handler's tests, the
\* guard, and the add to _pendingOrders.
TaskStart(t) ==
  /\ probe.call = "procurement"
  /\ t \in 1..Len(probe.tasks)
  /\ probe.tasks[t].pc = "new"
  /\ LET task == probe.tasks[t]
     IN  IF task.kind = "handler" /\ ~is_material_sku(task.sku)
         THEN probe' = [probe EXCEPT !.tasks[t].pc = "done"]
         ELSE IF task.kind = "handler" /\ task.sku \in probe.pendingOrders
         THEN probe' = [probe EXCEPT !.tasks[t].pc = "done"]
         ELSE IF already_handling(probe.pendingOrders, task.sku)
         THEN probe' = [probe EXCEPT !.tasks[t].pc = "done", !.tasks[t].result = "False"]
         ELSE probe' = [probe EXCEPT !.tasks[t].pc = "material",
                                     !.pendingOrders = @ \cup {task.sku}]
  /\ UNCHANGED <<files, jobs, run, val>>

\* The finally block, then the return.
finish(state, t, result) ==
  [state EXCEPT !.tasks[t].pc = "done", !.tasks[t].result = result,
                !.pendingOrders = @ \ {state.tasks[t].sku}]

\* The RawMaterials query returns.
TaskMaterial(t) ==
  /\ probe.call = "procurement"
  /\ t \in 1..Len(probe.tasks)
  /\ probe.tasks[t].pc = "material"
  /\ probe' = IF probe.tasks[t].sku \notin Materials
              THEN finish(probe, t, "False")
              ELSE [probe EXCEPT !.tasks[t].pc = "supplier"]
  /\ UNCHANGED <<files, jobs, run, val>>

\* The Suppliers query returns.
TaskSupplier(t) ==
  /\ probe.call = "procurement"
  /\ t \in 1..Len(probe.tasks)
  /\ probe.tasks[t].pc = "supplier"
  /\ probe' = IF probe.tasks[t].sku \notin SuppliedMaterials
              THEN finish(probe, t, "False")
              ELSE [probe EXCEPT !.tasks[t].pc = "insert"]
  /\ UNCHANGED <<files, jobs, run, val>>

\* ExecuteAsync of the INSERT: it raises outside a transaction.
TaskInsert(t) ==
  /\ probe.call = "procurement"
  /\ t \in 1..Len(probe.tasks)
  /\ probe.tasks[t].pc = "insert"
  /\ probe' = IF ~probe.is_transaction_active
              THEN finish(probe, t, "False")
              ELSE [finish(probe, t, "True") EXCEPT
                      !.purchase_orders = Append(@, probe.tasks[t].sku)]
  /\ UNCHANGED <<files, jobs, run, val>>

\* A handler task is cancelled while it waits (the event loop closes):
\* CancelledError passes the except clause and the finally block runs.
TaskCancel(t) ==
  /\ probe.call = "procurement"
  /\ t \in 1..Len(probe.tasks)
  /\ probe.tasks[t].kind = "handler"
  /\ probe.tasks[t].pc \in InFlight
  /\ probe' = finish(probe, t, "cancelled")
  /\ UNCHANGED <<files, jobs, run, val>>

\* BeginTransaction, CommitTransaction and RollbackTransaction of the
\* other services, which share the connection.
SetTransaction ==
  /\ probe.call = "procurement"
  /\ \E active \in BOOLEAN :
       /\ active # probe.is_transaction_active
       /\ probe' = [probe EXCEPT !.is_transaction_active = active]
  /\ UNCHANGED <<files, jobs, run, val>>

NextProcure ==
  \/ CreateTask
  \/ \E t \in 1..MaxTasks : TaskStart(t)
  \/ \E t \in 1..MaxTasks : TaskMaterial(t)
  \/ \E t \in 1..MaxTasks : TaskSupplier(t)
  \/ \E t \in 1..MaxTasks : TaskInsert(t)
  \/ \E t \in 1..MaxTasks : TaskCancel(t)
  \/ SetTransaction

SpecProcure == InitProcure /\ [][NextProcure]_vars

\* The tasks that are past the guard for a material.
PastGuard(m) == {t \in 1..Len(probe.tasks) : probe.tasks[t].sku = m /\ probe.tasks[t].pc \in InFlight}

\* C30: for each material at most one execution is past the guard, and the
\* material is in _pendingOrders exactly while that execution has not ended.
C30_OneExecutionPerMaterial ==
  probe.call = "procurement" =>
    \A m \in TaskSkus :
      /\ Cardinality(PastGuard(m)) <= 1
      /\ (m \in probe.pendingOrders) <=> (PastGuard(m) # {})

\* One execution for MAT-001 has ended with an order, a second one is past
\* the guard, and a third call was turned away by the guard.
C30_Witness ==
  /\ probe.call = "procurement"
  /\ Len(probe.tasks) = 3
  /\ probe.tasks[1].sku = "MAT-001" /\ probe.tasks[1].result = "True"
  /\ probe.tasks[2].sku = "MAT-001" /\ probe.tasks[2].pc \in InFlight
  /\ probe.tasks[3].sku = "MAT-001" /\ probe.tasks[3].result = "False"
  /\ probe.tasks[3].kind = "direct"
  /\ probe.pendingOrders = {"MAT-001"}

====
